---- MODULE Spec2Model ----
(***************************************************************************)
(* price-watcher: the price-monitoring core.                               *)
(*                                                                         *)
(*   app/tasks/price_monitor_task.py   watch_prices_task (the loop)        *)
(*   app/services/price_service.py     the check pass and the compaction   *)
(*   app/crud/sqlite_crud.py           the prices and products tables      *)
(*   app/utils/logging_utils.py        log_message                         *)
(*   app/services/scraping_service.py  get_product_info (the extractor)    *)
(*   app/services/notification_service.py  send_telegram_message           *)
(*   app/api/endpoints.py              the manual trigger and the stats    *)
(*                                                                         *)
(* A price is a natural number of currency units and a timestamp a natural *)
(* number of clock ticks; the text form '%Y-%m-%d %H:%M:%S' of a timestamp *)
(* is fixed-width, so its text order is the order of the tick numbers.     *)
(* The extractor is modelled on the text of the page; there a price is a   *)
(* number of hundredths of a currency unit.                                *)
(***************************************************************************)
EXTENDS Integers, Sequences, FiniteSets, TLC

\* ------------------------------------------------------------------ bounds
MaxIter == 3              \* iterations of the monitor loop that are explored
MaxLen == 3               \* most rows the store specifications put in the table
MaxTime == 3              \* latest clock reading of the store specifications
MaxProducts == 3          \* most rows of the products table in the catalogue
MaxCalls == 1             \* requests the api handler serves

ProductIds == {1, 2}                     \* rows of the products table
PriceSet == {20, 25}                     \* prices the pages show
DropPrices == {90, 100}                  \* prices the pages show in SpecDrop
ApiPrices == {20}                        \* prices the pages show in SpecApi
StatsPrices == {10, 15, 20}              \* prices the pages show in SpecQuery
DelayChoices == {28800, 43200, 100000}   \* configured DELAY_SECONDS values explored
SleepTicks == {0, 1}                     \* clock ticks that pass during one sleep
UnknownIds == {3}                        \* an id no row of the products table has

\* ---------------------------------------------------------- program constants
SecondsPerDay == 86400        \* 24 * 60 * 60
DefaultIterationsPerDay == 1440
DefaultDelay == 60            \* os.getenv("DELAY_SECONDS", "60")
LogMessageArity == 1          \* def log_message(message: str)
ErrorLogCallArgs == 2         \* log_message(f"Error processing ...", "ERROR")
DfColumns == 4                \* date, price, datetime_obj, week_num
WeekLen == 2                  \* '%Y-%W': one clock tick is half a week
ActiveLimit == 1000           \* get_all_products(active_only=True, limit=1000)
CleanLimit == 10000           \* get_all_products(limit=10000)

None == <<>>                  \* Python None / an empty result
NULL == 0 - 1                 \* SQL NULL
NaN == NULL                   \* pandas NaN; SQLite binds it as NULL
RAISED == NULL - 1            \* mark of an extraction that raised
NoTarget == 0                 \* target_product_id / product_id_or_slug not given

\* the monitor task on the event loop, and a request handler on a worker thread
Procs == {"monitor", "api"}

VARIABLES
    products,        \* products table: id -> [is_active, last_checked_at]
    prices,          \* prices table, rows in rowid order
    now,             \* wall clock (datetime.now())
    delay,           \* settings.DELAY_SECONDS
    iteration,       \* watch_prices_task: iteration
    pc,              \* where each activity stands
    todo,            \* products_to_check still to be processed, per activity
    current_price,   \* _process_single_product: current_price
    previous,        \* _process_single_product: latest_entry_before_save
    graph_path,      \* _process_single_product: graph_path (the series drawn)
    exc,             \* exception in flight, per activity
    keep,            \* clean_price_history: rows_to_keep_list
    cleanTodo,       \* clean_price_history: products still to be cleaned
    notifications,   \* calls of send_telegram_message, in order
    charts,          \* the chart file of each product: the series it draws
    errlog,          \* products named in error entries of the log
    passlog,         \* per activity: products the current pass has taken up
    cleanlog,        \* iterations in which clean_price_history was entered
    snapshot,        \* clean_price_history: df_product_history as read
    appended,        \* per product: the points inserted, in insertion order
    scraped,         \* per product: what each extraction returned, in order
    shown,           \* the prices the product pages can show
    faulty,          \* whether storage and file operations may fail
    offline,         \* whether requests to the shops and to Telegram may fail
    configured,      \* settings.TELEGRAM_TOKEN and settings.TELEGRAM_CHAT_ID are set
    sends,           \* the requests made to Telegram, in order, with their outcome
    fetched,         \* per product: how the last extraction ended
    target_product_id, \* process_new_price_iteration: target_product_id, per activity
    request,         \* the request the api handler is serving
    response,        \* what the api handler answered last
    calls,           \* requests served so far
    data,            \* the body of the request being served or of the last answer
    page,            \* get_product_info: the answer of the shop to the request
    info             \* get_product_info: what it returned for the page

vars == << products, prices, now, delay, iteration, pc, todo, current_price,
           previous, graph_path, exc, keep, cleanTodo, notifications, charts,
           errlog, passlog, cleanlog, snapshot, appended, scraped, shown, faulty,
           offline, configured, sends, fetched, target_product_id, request,
           response, calls, data, page, info >>

\* what no step of the monitor loop, the pass or the compaction changes
apiVars == << request, response, calls, data, target_product_id >>
worldVars == << shown, faulty, offline, configured, page, info >>
envVars == << worldVars, apiVars >>
notifyVars == << notifications, sends >>
scrapeVars == << scraped, fetched >>

\* ------------------------------------------------------------ sequence helpers
\* rows of the prices table of one product, in rowid order
SelectRows(tbl, pid) == SelectSeq(tbl, LAMBDA r : r.product_id = pid)

\* ORDER BY timestamp ASC; rows of equal timestamp stay in rowid order
OrderByTimestamp(rows) ==
    LET n == Len(rows)
        before(j, i) == \/ rows[j].date < rows[i].date
                        \/ rows[j].date = rows[i].date /\ j < i
        rank(i) == Cardinality({j \in 1..n : before(j, i)}) + 1
    IN  [k \in 1..n |-> rows[CHOOSE i \in 1..n : rank(i) = k]]

\* ------------------------------------------------- prices table (SQLitePriceCRUD)
\* Every operation takes `ok`: FALSE when the statement meets an sqlite3.Error.

\* a store that keeps one row per product and timestamp: a second point of the
\* same second replaces the first
save_price_entry_keyed(tbl, pid, price_value, current_timestamp, ok) ==
    IF ok
    THEN Append(SelectSeq(tbl, LAMBDA r : ~(r.product_id = pid
                                            /\ r.timestamp = current_timestamp)),
                [product_id |-> pid, timestamp |-> current_timestamp,
                 price |-> price_value])
    ELSE tbl

\* a store that records changes only: a price equal to the product's latest
\* one is not inserted
save_price_entry_changes(tbl, pid, price_value, current_timestamp, ok) ==
    LET rows == SelectRows(tbl, pid)
    IN  IF ok /\ (rows = <<>> \/ rows[Len(rows)].price # price_value)
        THEN Append(tbl, [product_id |-> pid, timestamp |-> current_timestamp,
                          price |-> price_value])
        ELSE tbl

\* INSERT INTO prices (product_id, timestamp, price); on an error: log, return
save_price_entry(tbl, pid, price_value, current_timestamp, ok) ==
    IF ok
    THEN Append(tbl, [product_id |-> pid, timestamp |-> current_timestamp,
                      price |-> price_value])
    ELSE tbl

\* the query without its ORDER BY: the rows in rowid order
get_all_price_entries_unordered(tbl, pid, ok) ==
    LET rows == SelectRows(tbl, pid)
    IN  IF ok
        THEN [i \in 1..Len(rows) |-> [date |-> rows[i].timestamp, price |-> rows[i].price]]
        ELSE <<>>

\* SELECT timestamp as date, price ... WHERE product_id = ? ORDER BY timestamp ASC
\* on an error: log, an empty frame
get_all_price_entries_df(tbl, pid, ok) ==
    LET rows == SelectRows(tbl, pid)
    IN  IF ok
        THEN OrderByTimestamp([i \in 1..Len(rows) |->
                [date |-> rows[i].timestamp, price |-> rows[i].price]])
        ELSE <<>>

\* SELECT timestamp, price ... WHERE product_id = ? ORDER BY id DESC LIMIT 1
\* on an error: log, None
get_latest_price_entry(tbl, pid, ok) ==
    LET rows == SelectRows(tbl, pid)
    IN  IF ok /\ rows # <<>>
        THEN << rows[Len(rows)].timestamp, rows[Len(rows)].price >>
        ELSE None

\* the rows of the other products
RowsOfOthers(tbl, pid) == SelectSeq(tbl, LAMBDA r : r.product_id # pid)

\* a DELETE without its WHERE clause: the rows of every product go
delete_prices_of_every_product(tbl, pid, ok) ==
    IF ok THEN <<>> ELSE tbl

\* DELETE FROM prices WHERE product_id = ?; commit; on an error: log, rollback
delete_prices_for_product(tbl, pid, ok) ==
    IF ok THEN RowsOfOthers(tbl, pid) ELSE tbl

\* a row the table refuses: timestamp TEXT NOT NULL, price REAL NOT NULL
ViolatesNotNull(entry) == entry.timestamp = NaN \/ entry.price = NaN

\* executemany INSERT in one transaction; commit; on an error: log, rollback
bulk_insert_prices_for_product(tbl, pid, price_entries, ok) ==
    IF ok /\ \A i \in 1..Len(price_entries) : ~ViolatesNotNull(price_entries[i])
    THEN tbl \o [i \in 1..Len(price_entries) |->
                   [product_id |-> pid,
                    timestamp |-> price_entries[i].timestamp,
                    price |-> price_entries[i].price]]
    ELSE tbl

\* ---------------------------------------------- products table (SQLiteProductCRUD)
\* ORDER BY created_at DESC: the products were created in the order of their ids
DescendingIds(ids) ==
    [k \in 1..Cardinality(ids) |->
        CHOOSE x \in ids : Cardinality({y \in ids : y > x}) = k - 1]

\* SELECT * FROM products [WHERE is_active = TRUE] ORDER BY created_at DESC LIMIT ?
get_all_products(prods, active_only, limit) ==
    LET ids == {p \in DOMAIN prods : ~active_only \/ prods[p].is_active}
        all == DescendingIds(ids)
    IN  SubSeq(all, 1, IF Len(all) < limit THEN Len(all) ELSE limit)

\* an update that is skipped
update_last_checked_skipped(prods, pid, ts, ok) == prods

\* UPDATE products SET last_checked_at = ? WHERE id = ?; on an error: log
update_last_checked_at(prods, pid, ts, ok) ==
    IF ok /\ pid \in DOMAIN prods
    THEN [prods EXCEPT ![pid].last_checked_at = ts]
    ELSE prods

\* ------------------------------------------------- compaction (clean_price_history)
\* df['datetime_obj'].dt.strftime('%Y-%W')
week_num(date) == date \div WeekLen

\* groupby sorts the group keys
AscendingKeys(keys) ==
    [k \in 1..Cardinality(keys) |->
        CHOOSE x \in keys : Cardinality({y \in keys : y < x}) = k - 1]

\* the rows of one week, in the order of the frame
GroupRows(df, w) == SelectSeq(df, LAMBDA r : week_num(r.date) = w)

\* g['price'].nunique()
nunique(g) == Cardinality({g[i].price : i \in 1..Len(g)})

\* lambda g: g.iloc[0] if g['price'].nunique() == 1 else g
\* g.iloc[0] is a Series (one row); g is a DataFrame.
ReturnsSeries(g) == nunique(g) = 1

RECURSIVE ConcatFirst(_, _)
\* the first k pieces, one after the other
ConcatFirst(pieces, k) ==
    IF k = 0 THEN <<>> ELSE ConcatFirst(pieces, k - 1) \o pieces[k]

Concat(pieces) == ConcatFirst(pieces, Len(pieces))

\* a compaction that keeps every row and one more copy of it
rows_to_keep_df_doubled(df) == df \o df

\* groupby('week_num').apply(...).reset_index(drop=True)
\* When every group returns a Series the results are stacked, one row per week;
\* when every group returns a DataFrame they are concatenated.  When both kinds
\* occur pandas concatenates them row-wise after turning each Series into a
\* one-column frame indexed by the column labels: such a Series contributes one
\* row per column of the frame, each with NaN under 'date' and 'price'.
rows_to_keep_df(df) ==
    LET weeks == AscendingKeys({week_num(df[i].date) : i \in 1..Len(df)})
        group(k) == GroupRows(df, weeks[k])
        mixed == /\ \E k \in 1..Len(weeks) : ReturnsSeries(group(k))
                 /\ \E k \in 1..Len(weeks) : ~ReturnsSeries(group(k))
        upcast == [c \in 1..DfColumns |-> [date |-> NaN, price |-> NaN]]
        piece(k) == IF ReturnsSeries(group(k))
                    THEN IF mixed THEN upcast ELSE << group(k)[1] >>
                    ELSE group(k)
    IN  Concat([k \in 1..Len(weeks) |-> piece(k)])

\* [{'timestamp': row['date'], 'price': row['price']} for _, row in iterrows()]
rows_to_keep_list(df) ==
    LET kept == rows_to_keep_df(df)
    IN  [i \in 1..Len(kept) |-> [timestamp |-> kept[i].date, price |-> kept[i].price]]

\* the body of the for loop of clean_price_history for one product, on a sound
\* storage: read the frame; when it is empty or nothing is to keep, leave the
\* table; else delete the rows of the product and insert those to keep
clean_price_history_of(tbl, pid) ==
    LET df_product_history == get_all_price_entries_df(tbl, pid, TRUE)
        kept == IF df_product_history = <<>> THEN <<>>
                ELSE rows_to_keep_list(df_product_history)
    IN  IF kept = <<>> THEN tbl
        ELSE bulk_insert_prices_for_product(
                 delete_prices_for_product(tbl, pid, TRUE), pid, kept, TRUE)

\* ----------------------------------------------------------------- price check
\* the difference taken relative to the current price
discount_of_current_price(previous_latest_price, price) ==
    (2 * (previous_latest_price - price) * 10000 + price) \div (2 * price)

\* float('inf') among the prices of the monitor loop, which are whole numbers:
\* it lies above every other price
Infinity == 1000000

\* f"{((previous - current) / previous) * 100:.2f}", in hundredths of a percent
\* (rounded to the nearest hundredth); with previous = inf the difference is
\* inf and inf / inf is nan
discount_percentage(previous_latest_price, price) ==
    IF previous_latest_price = Infinity THEN NaN
    ELSE (2 * (previous_latest_price - price) * 10000 + previous_latest_price)
             \div (2 * previous_latest_price)

\* (24 * 60 * 60) / settings.DELAY_SECONDS if settings.DELAY_SECONDS > 0 else 1440,
\* then int(...)
iterations_per_day(d) ==
    IF d > 0 THEN SecondsPerDay \div d ELSE DefaultIterationsPerDay

\* ------------------------------------------------------------------ the state
\* outcomes of a storage statement and of writing the chart file
StorageOutcomes == IF faulty THEN BOOLEAN ELSE {TRUE}
RenderOutcomes == IF faulty THEN {"drawn", "raise"} ELSE {"drawn"}

\* outcomes of conn = self._get_connection(): sqlite3.connect opens the file, or
\* raises sqlite3.OperationalError
ConnectOutcomes == IF faulty THEN {"open", "raise"} ELSE {"open"}

\* outcomes of a request to Telegram: requests.post and raise_for_status
NetOutcomes == IF offline THEN BOOLEAN ELSE {TRUE}

\* outcomes of the image send: sent, the request fails, the chart file is gone
PhotoOutcomes ==
    {"sent"} \cup (IF offline THEN {"RequestException"} ELSE {})
             \cup (IF faulty THEN {"FileNotFoundError"} ELSE {})

\* why get_product_info returns no price: the page has no price (no element
\* matches, no name, or the text is no number), or the request failed
NullCauses ==
    {"no_price"} \cup (IF offline THEN {"ConnectionError", "Timeout", "HTTPError"}
                                  ELSE {})

\* the tables and the variables of the tasks as main() leaves them
Constructed ==
    /\ prices = <<>>
    /\ now = 0
    /\ todo = [self \in Procs |-> <<>>]
    /\ current_price = [self \in Procs |-> 0]
    /\ previous = [self \in Procs |-> None]
    /\ graph_path = [self \in Procs |-> None]
    /\ exc = [self \in Procs |-> "none"]
    /\ keep = <<>>
    /\ cleanTodo = <<>>
    /\ notifications = <<>>
    /\ charts = [p \in ProductIds |-> <<>>]
    /\ errlog = {}
    /\ passlog = [self \in Procs |-> <<>>]
    /\ cleanlog = <<>>
    /\ snapshot = <<>>
    /\ appended = [p \in ProductIds |-> <<>>]
    /\ scraped = [p \in ProductIds |-> <<>>]
    /\ sends = <<>>
    /\ fetched = [p \in ProductIds |-> "never"]
    /\ target_product_id = [self \in Procs |-> NoTarget]
    /\ request = [kind |-> "none", product_id_or_slug |-> NoTarget]
    /\ response = [status |-> 0, detail |-> "none", stats |-> None]
    /\ calls = 0
    /\ data = None
    /\ page = None
    /\ info = None

\* main: the tables exist, the tasks are created and watch_prices_task is about
\* to enter its loop
Started ==
    /\ Constructed
    /\ iteration = 0
    /\ pc = [self \in Procs |-> "idle"]

\* the first pass found no product to check and watch_prices_task awaits its
\* first sleep; the catalogue is filled through the api from here on
FirstSleep ==
    /\ Constructed
    /\ iteration = 1
    /\ pc = [self \in Procs |-> IF self = "monitor" THEN "sleep" ELSE "idle"]

\* watch_prices_task and the uvicorn server are tasks of one event loop
\* (asyncio.gather), and process_new_price_iteration and clean_price_history
\* are called synchronously inside the coroutine: the loop accepts a request
\* and hands it to a worker thread only while the task awaits asyncio.sleep
LoopIsFree == pc["monitor"] = "sleep"

\* nothing fails but the extraction, and the notification channel is configured
Healthy ==
    /\ faulty = FALSE
    /\ offline = FALSE
    /\ configured = TRUE

AllActive == [p \in ProductIds |-> [is_active |-> TRUE, last_checked_at |-> NULL]]

Init ==
    /\ Started
    /\ products \in [ProductIds -> [is_active : BOOLEAN, last_checked_at : {NULL}]]
    /\ delay \in DelayChoices
    /\ shown = PriceSet
    /\ Healthy

cleanVars == << keep, cleanTodo, cleanlog, snapshot >>
localVars == << current_price, previous, graph_path >>

\* ------------------------------------------- process_new_price_iteration (a pass)
\* the product being processed
product(self) == Head(todo[self])

\* the for loop of process_new_price_iteration moves to the next product, or the
\* function returns
DoneWithProduct(self) ==
    /\ todo' = [todo EXCEPT ![self] = Tail(@)]
    /\ pc' = [pc EXCEPT ![self] =
                IF Tail(todo[self]) = <<>> THEN "returned" ELSE "extract"]

\* an exception inside _process_single_product: into the except of the for loop
RaiseInProduct(self, e) ==
    /\ exc' = [exc EXCEPT ![self] = e]
    /\ pc' = [pc EXCEPT ![self] = "except"]

\* SELECT * FROM products WHERE id = ?: the row as a dict, or None
get_product_by_id(prods, pid) ==
    IF pid \in DOMAIN prods THEN << pid, prods[pid].is_active >> ELSE None

\* a pass that takes the active products whatever the target
products_to_check_untargeted(prods, target) ==
    get_all_products(prods, TRUE, ActiveLimit)

\* products_to_check: the targeted product if it is found and active, else
\* nothing; without a target the active products.  Nothing to check: return.
\* get_product_by_id and get_all_products have no try: an sqlite3.Error leaves
\* process_new_price_iteration.
products_to_check(prods, target) ==
    IF target # NoTarget
    THEN LET product_dict == get_product_by_id(prods, target)
         IN  IF product_dict # None /\ product_dict[2]
             THEN << target >> ELSE <<>>
    ELSE get_all_products(prods, TRUE, ActiveLimit)

PassStart(self) ==
    /\ pc[self] = "pass"
    /\ \E ok \in StorageOutcomes :
         IF ok
         THEN /\ todo' = [todo EXCEPT ![self] =
                           products_to_check(products, target_product_id[self])]
              /\ pc' = [pc EXCEPT ![self] =
                          IF todo'[self] = <<>> THEN "returned" ELSE "extract"]
              /\ UNCHANGED exc
         ELSE /\ exc' = [exc EXCEPT ![self] = "OperationalError"]
              /\ pc' = [pc EXCEPT ![self] = "raised"]
              /\ UNCHANGED todo
    /\ passlog' = [passlog EXCEPT ![self] = <<>>]
    /\ UNCHANGED << scrapeVars, products, prices, now, delay, iteration, notifyVars,
                    charts, errlog, appended, envVars, cleanVars, localVars >>

\* _process_single_product up to the test of current_price:
\* scraping_service.get_product_info returns a price, returns no price (then
\* last_checked_at is updated and the function returns), or raises (soup.select
\* on a malformed selector is outside its try)
Scrape(self) ==
    /\ pc[self] = "extract"
    /\ passlog' = [passlog EXCEPT ![self] = Append(@, product(self))]
    /\ \/ \E price \in shown :
            /\ current_price' = [current_price EXCEPT ![self] = price]
            /\ scraped' = [scraped EXCEPT ![product(self)] = Append(@, price)]
            /\ fetched' = [fetched EXCEPT ![product(self)] = "priced"]
            /\ pc' = [pc EXCEPT ![self] = "latest"]
            /\ UNCHANGED << products, todo, exc >>
       \/ \E cause \in NullCauses, conn \in ConnectOutcomes, ok \in StorageOutcomes :
            /\ scraped' = [scraped EXCEPT ![product(self)] = Append(@, NULL)]
            /\ fetched' = [fetched EXCEPT ![product(self)] = cause]
            /\ IF conn = "raise"
               THEN /\ RaiseInProduct(self, "OperationalError")
                    /\ UNCHANGED << products, todo >>
               ELSE /\ products' = update_last_checked_at(products, product(self), now, ok)
                    /\ DoneWithProduct(self)
                    /\ UNCHANGED exc
            /\ UNCHANGED current_price
       \/ /\ RaiseInProduct(self, "SelectorSyntaxError")
          /\ scraped' = [scraped EXCEPT ![product(self)] = Append(@, RAISED)]
          /\ fetched' = [fetched EXCEPT ![product(self)] = "raised"]
          /\ UNCHANGED << products, todo, current_price >>
    /\ UNCHANGED << prices, now, delay, iteration, notifyVars, charts, errlog,
                    appended, envVars, cleanVars, previous, graph_path >>

\* a processing that takes for the latest entry the point it is about to save
ReadLatestOwnPoint(self) ==
    /\ pc[self] = "latest"
    /\ previous' = [previous EXCEPT ![self] = << now, current_price[self] >>]
    /\ pc' = [pc EXCEPT ![self] = "save"]
    /\ UNCHANGED << scrapeVars, products, prices, now, delay, iteration, todo,
                    notifyVars, charts, errlog, passlog, appended, envVars,
                    cleanVars, current_price, graph_path, exc >>

\* latest_entry_before_save = get_latest_price_entry(product.id)
ReadLatest(self) ==
    /\ pc[self] = "latest"
    /\ \E conn \in ConnectOutcomes, ok \in StorageOutcomes :
         IF conn = "raise"
         THEN /\ RaiseInProduct(self, "OperationalError")
              /\ UNCHANGED previous
         ELSE /\ previous' = [previous EXCEPT ![self] =
                                get_latest_price_entry(prices, product(self), ok)]
              /\ pc' = [pc EXCEPT ![self] = "save"]
              /\ UNCHANGED exc
    /\ UNCHANGED << scrapeVars, products, prices, now, delay, iteration, todo,
                    notifyVars, charts, errlog, passlog, appended, envVars,
                    cleanVars, current_price, graph_path >>

\* save_price_entry(product.id, current_price)
SavePrice(self) ==
    /\ pc[self] = "save"
    /\ \E conn \in ConnectOutcomes, ok \in StorageOutcomes :
         IF conn = "raise"
         THEN /\ RaiseInProduct(self, "OperationalError")
              /\ UNCHANGED << prices, appended >>
         ELSE /\ prices' = save_price_entry(prices, product(self), current_price[self],
                                            now, ok)
              /\ appended' = IF prices' # prices
                             THEN [appended EXCEPT ![product(self)] =
                                     Append(@, << now, current_price[self] >>)]
                             ELSE appended
              /\ pc' = [pc EXCEPT ![self] = "touch"]
              /\ UNCHANGED exc
    /\ UNCHANGED << scrapeVars, products, now, delay, iteration, todo, notifyVars,
                    charts, errlog, passlog, envVars, cleanVars, localVars >>

\* update_last_checked_at(product.id)
UpdateLastChecked(self) ==
    /\ pc[self] = "touch"
    /\ \E conn \in ConnectOutcomes, ok \in StorageOutcomes :
         IF conn = "raise"
         THEN /\ RaiseInProduct(self, "OperationalError")
              /\ UNCHANGED products
         ELSE /\ products' = update_last_checked_at(products, product(self), now, ok)
              /\ pc' = [pc EXCEPT ![self] = "render"]
              /\ UNCHANGED exc
    /\ UNCHANGED << scrapeVars, prices, now, delay, iteration, todo, notifyVars,
                    charts, errlog, passlog, appended, envVars, cleanVars,
                    localVars >>

\* generate_price_history_graph: None for an empty frame, else the chart file of
\* the product is overwritten; plt.savefig may raise
RenderGraph(self) ==
    /\ pc[self] = "render"
    /\ \E outcome \in RenderOutcomes, conn \in ConnectOutcomes, ok \in StorageOutcomes :
         LET df == get_all_price_entries_df(prices, product(self), ok)
         IN  IF conn = "raise"
             THEN /\ RaiseInProduct(self, "OperationalError")
                  /\ UNCHANGED << charts, graph_path >>
             ELSE IF df = <<>>
             THEN /\ graph_path' = [graph_path EXCEPT ![self] = None]
                  /\ pc' = [pc EXCEPT ![self] = "compare"]
                  /\ UNCHANGED << charts, exc >>
             ELSE IF outcome = "raise"
             THEN /\ RaiseInProduct(self, "OSError")
                  /\ UNCHANGED << charts, graph_path >>
             ELSE /\ charts' = [charts EXCEPT ![product(self)] = df]
                  /\ graph_path' = [graph_path EXCEPT ![self] = << product(self) >>]
                  /\ pc' = [pc EXCEPT ![self] = "compare"]
                  /\ UNCHANGED exc
    /\ UNCHANGED << scrapeVars, products, prices, now, delay, iteration, todo,
                    notifyVars, errlog, passlog, appended, envVars, cleanVars,
                    current_price, previous >>

\* the message of a price drop handed to send_telegram_message with the chart
DropMessage(pid, previous_latest_price, price, image) ==
    [ product |-> pid, previous |-> previous_latest_price, current |-> price,
      discount |-> discount_percentage(previous_latest_price, price),
      image |-> image ]

\* a comparison that also takes an unchanged price for a drop
IsNotAbove(latest_entry_before_save, price) ==
    /\ latest_entry_before_save # None
    /\ price <= latest_entry_before_save[2]

\* whether _process_single_product notifies
IsDrop(latest_entry_before_save, price) ==
    /\ latest_entry_before_save # None
    /\ price < latest_entry_before_save[2]

\* a notifier that sends the photo only after the text went through
send_telegram_message_chained(log, message, conf, text_ok, photo) ==
    LET text_sent == Append(log, [kind |-> "text", product |-> message.product,
                                  ok |-> text_ok])
    IN  IF ~conf THEN log
        ELSE IF message.image # None /\ text_ok
        THEN Append(text_sent, [kind |-> "photo", product |-> message.product,
                                ok |-> photo = "sent"])
        ELSE text_sent

\* a notifier that does not look at the settings
send_telegram_message_unguarded(log, message, conf, text_ok, photo) ==
    LET text_sent == Append(log, [kind |-> "text", product |-> message.product,
                                  ok |-> text_ok])
    IN  IF message.image # None
        THEN Append(text_sent, [kind |-> "photo", product |-> message.product,
                                ok |-> photo = "sent"])
        ELSE text_sent

\* send_telegram_message(message, image_path): nothing when the channel is not
\* configured; else the text is posted, and then, when there is an image path,
\* the photo; a failure of either is logged
send_telegram_message(log, message, conf, text_ok, photo) ==
    LET text_sent == Append(log, [kind |-> "text", product |-> message.product,
                                  ok |-> text_ok])
    IN  IF ~conf THEN log
        ELSE IF message.image # None
        THEN Append(text_sent, [kind |-> "photo", product |-> message.product,
                                ok |-> photo = "sent"])
        ELSE text_sent

\* the comparison with previous_latest_price and the notification
CompareAndNotify(self) ==
    /\ pc[self] = "compare"
    /\ IF IsDrop(previous[self], current_price[self])
       THEN LET message == DropMessage(product(self), previous[self][2],
                                       current_price[self],
                                       IF graph_path[self] = None THEN None
                                       ELSE charts[product(self)])
            IN  /\ notifications' = Append(notifications, message)
                /\ \E text_ok \in NetOutcomes, photo \in PhotoOutcomes :
                     sends' = send_telegram_message(sends, message, configured,
                                                    text_ok, photo)
       ELSE UNCHANGED notifyVars
    /\ DoneWithProduct(self)
    /\ UNCHANGED << scrapeVars, products, prices, now, delay, iteration, exc, charts,
                    errlog, passlog, appended, envVars, cleanVars, localVars >>

\* whether the call log_message(text, "ERROR") of the except block is accepted
ErrorLogAccepted == ErrorLogCallArgs = LogMessageArity

\* except Exception as e: log_message(f"Error processing product ID ...", "ERROR")
\* log_message takes one argument: the call raises TypeError out of the handler
HandleError(self) ==
    /\ pc[self] = "except"
    /\ IF ErrorLogAccepted
       THEN /\ errlog' = errlog \cup {product(self)}
            /\ exc' = [exc EXCEPT ![self] = "none"]
            /\ DoneWithProduct(self)
       ELSE /\ exc' = [exc EXCEPT ![self] = "TypeError"]
            /\ pc' = [pc EXCEPT ![self] = "raised"]
            /\ UNCHANGED << errlog, todo >>
    /\ UNCHANGED << scrapeVars, products, prices, now, delay, iteration, notifyVars, charts,
                    passlog, appended, envVars, cleanVars, localVars >>

Pass(self) ==
    \/ PassStart(self)
    \/ Scrape(self)
    \/ ReadLatest(self)
    \/ SavePrice(self)
    \/ UpdateLastChecked(self)
    \/ RenderGraph(self)
    \/ CompareAndNotify(self)
    \/ HandleError(self)

\* ------------------------------------------------------------ watch_prices_task
passVars == << todo, passlog, errlog, notifyVars, charts, scrapeVars, localVars >>

\* while True: iteration += 1; process_new_price_iteration() is entered
WatchIteration ==
    /\ pc["monitor"] = "idle"
    /\ iteration < MaxIter
    /\ iteration' = iteration + 1
    /\ exc' = [exc EXCEPT !["monitor"] = "none"]
    /\ pc' = [pc EXCEPT !["monitor"] = "pass"]
    /\ UNCHANGED << products, prices, now, delay, appended, envVars, cleanVars,
                    passVars >>

\* the pass has returned: if iteration % int(iterations_per_day) == 0, compaction;
\* a zero divisor raises ZeroDivisionError into the except of the loop
AfterPass ==
    /\ pc["monitor"] = "returned"
    /\ LET n == iterations_per_day(delay)
       IN  IF n = 0
           THEN /\ exc' = [exc EXCEPT !["monitor"] = "ZeroDivisionError"]
                /\ pc' = [pc EXCEPT !["monitor"] = "sleep"]
           ELSE /\ pc' = [pc EXCEPT !["monitor"] =
                            IF iteration % n = 0 THEN "clean" ELSE "sleep"]
                /\ UNCHANGED exc
    /\ UNCHANGED << products, prices, now, delay, iteration, appended, envVars,
                    cleanVars, passVars >>

\* a loop without the except clause: the exception ends the task
EndOnException ==
    /\ pc["monitor"] = "raised"
    /\ pc' = [pc EXCEPT !["monitor"] = "ended"]
    /\ UNCHANGED << products, prices, now, delay, iteration, exc, appended, envVars,
                    cleanVars, passVars >>

\* except Exception as e: log_message(...) for an exception out of the pass
CatchInLoop ==
    /\ pc["monitor"] = "raised"
    /\ pc' = [pc EXCEPT !["monitor"] = "sleep"]
    /\ UNCHANGED << products, prices, now, delay, iteration, exc, appended, envVars,
                    cleanVars, passVars >>

\* await asyncio.sleep(settings.DELAY_SECONDS); the clock has moved on
Sleep ==
    /\ pc["monitor"] = "sleep"
    /\ \E d \in SleepTicks : now' = now + d
    /\ pc' = [pc EXCEPT !["monitor"] = "idle"]
    /\ UNCHANGED << products, prices, delay, iteration, exc, appended, envVars,
                    cleanVars, passVars >>

\* ----------------------------------------------------------- clean_price_history
\* an exception inside clean_price_history: into the except of the loop
RaiseInClean(e) ==
    /\ exc' = [exc EXCEPT !["monitor"] = e]
    /\ pc' = [pc EXCEPT !["monitor"] = "raised"]

\* all_products = get_all_products(limit=10000); none: return
CleanStart ==
    /\ pc["monitor"] = "clean"
    /\ cleanlog' = Append(cleanlog, iteration)
    /\ \E ok \in StorageOutcomes :
         LET all_products == get_all_products(products, FALSE, CleanLimit)
         IN  IF ok
             THEN /\ cleanTodo' = all_products
                  /\ pc' = [pc EXCEPT !["monitor"] =
                              IF all_products = <<>> THEN "sleep" ELSE "clean_read"]
                  /\ UNCHANGED exc
             ELSE /\ RaiseInClean("OperationalError")
                  /\ UNCHANGED cleanTodo
    /\ UNCHANGED << products, prices, now, delay, iteration, appended, envVars,
                    keep, snapshot, passVars >>

\* df_product_history is read; an empty frame: continue; else rows_to_keep_list
CleanRead ==
    /\ pc["monitor"] = "clean_read"
    /\ \E conn \in ConnectOutcomes, ok \in StorageOutcomes :
         LET df_product_history ==
                 get_all_price_entries_df(prices, Head(cleanTodo), ok)
             kept == IF df_product_history = <<>> THEN <<>>
                     ELSE rows_to_keep_list(df_product_history)
         IN  IF conn = "raise"
             THEN /\ RaiseInClean("OperationalError")
                  /\ UNCHANGED << snapshot, keep >>
             ELSE /\ snapshot' = df_product_history
                  /\ keep' = kept
                  /\ pc' = [pc EXCEPT !["monitor"] =
                              IF kept = <<>> THEN "clean_next" ELSE "clean_delete"]
                  /\ UNCHANGED exc
    /\ UNCHANGED << products, prices, now, delay, iteration, appended, envVars,
                    cleanTodo, cleanlog, passVars >>

\* price_crud_handler.delete_prices_for_product(product_id)
CleanDelete ==
    /\ pc["monitor"] = "clean_delete"
    /\ \E conn \in ConnectOutcomes, ok \in StorageOutcomes :
         IF conn = "raise"
         THEN /\ RaiseInClean("OperationalError")
              /\ UNCHANGED << prices, appended >>
         ELSE /\ prices' = delete_prices_for_product(prices, Head(cleanTodo), ok)
              /\ appended' = IF ok THEN [appended EXCEPT ![Head(cleanTodo)] = <<>>]
                             ELSE appended
              /\ pc' = [pc EXCEPT !["monitor"] = "clean_insert"]
              /\ UNCHANGED exc
    /\ UNCHANGED << products, now, delay, iteration, envVars, cleanVars, passVars >>

\* price_crud_handler.bulk_insert_prices_for_product(product_id, rows_to_keep_list)
CleanInsert ==
    /\ pc["monitor"] = "clean_insert"
    /\ \E conn \in ConnectOutcomes, ok \in StorageOutcomes :
         IF conn = "raise"
         THEN /\ RaiseInClean("OperationalError")
              /\ UNCHANGED << prices, appended >>
         ELSE /\ prices' = bulk_insert_prices_for_product(prices, Head(cleanTodo),
                                                          keep, ok)
              /\ appended' =
                   IF prices' = prices THEN appended
                   ELSE [appended EXCEPT ![Head(cleanTodo)] =
                           @ \o [i \in 1..Len(keep) |->
                                   << keep[i].timestamp, keep[i].price >>]]
              /\ pc' = [pc EXCEPT !["monitor"] = "clean_next"]
              /\ UNCHANGED exc
    /\ UNCHANGED << products, now, delay, iteration, envVars, cleanVars, passVars >>

\* for product_dict in all_products: the next product, or the function returns
CleanNext ==
    /\ pc["monitor"] = "clean_next"
    /\ cleanTodo' = Tail(cleanTodo)
    /\ keep' = <<>>
    /\ snapshot' = <<>>
    /\ pc' = [pc EXCEPT !["monitor"] =
                IF Tail(cleanTodo) = <<>> THEN "sleep" ELSE "clean_read"]
    /\ UNCHANGED << products, prices, now, delay, iteration, exc, appended, envVars,
                    cleanlog, passVars >>

Clean == CleanStart \/ CleanRead \/ CleanDelete \/ CleanInsert \/ CleanNext

\* ------------------------------------------------------------ api/endpoints.py
\* statistics whose average is cut after the second decimal
get_price_stats_truncated(tbl, pid) ==
    LET rows == SelectRows(tbl, pid)
        count == Len(rows)
        values == {rows[i].price : i \in 1..count}
        total[k \in 0..count] == IF k = 0 THEN 0 ELSE total[k - 1] + rows[k].price
    IN  IF count = 0
        THEN << 0, NULL, NULL, NULL >>
        ELSE << count,
                CHOOSE v \in values : \A w \in values : v <= w,
                CHOOSE v \in values : \A w \in values : v >= w,
                (100 * total[count]) \div count >>

\* SELECT COUNT(price), MIN(price), MAX(price), AVG(price) of a product, as
\* (total_entries, min_price, max_price, average_price);
\* round(avg_price, 2) in hundredths (with fewer than eight rows the average is
\* never halfway between two hundredths)
get_price_stats(tbl, pid) ==
    LET rows == SelectRows(tbl, pid)
        count == Len(rows)
        values == {rows[i].price : i \in 1..count}
        total[k \in 0..count] == IF k = 0 THEN 0 ELSE total[k - 1] + rows[k].price
    IN  IF count = 0
        THEN << 0, NULL, NULL, NULL >>
        ELSE << count,
                CHOOSE v \in values : \A w \in values : v <= w,
                CHOOSE v \in values : \A w \in values : v >= w,
                (2 * 100 * total[count] + count) \div (2 * count) >>

\* POST /api/trigger with or without product_id_or_slug, GET .../stats
Requests ==
    [kind : {"trigger"}, product_id_or_slug : {NoTarget} \cup ProductIds \cup UnknownIds]
      \cup [kind : {"stats"}, product_id_or_slug : ProductIds \cup UnknownIds]

\* what the api steps leave alone
restVars == << products, prices, now, delay, iteration, appended, worldVars,
               cleanVars, passVars, data >>

\* the event loop accepts a request and its handler starts on a worker thread
ApiCall ==
    /\ pc["api"] = "idle"
    /\ LoopIsFree
    /\ calls < MaxCalls
    /\ calls' = calls + 1
    /\ \E r \in Requests :
         /\ request' = r
         /\ pc' = [pc EXCEPT !["api"] =
                     IF r.product_id_or_slug = NoTarget THEN "pass" ELSE "lookup"]
    /\ response' = [status |-> 0, detail |-> "none", stats |-> None]
    /\ target_product_id' = [target_product_id EXCEPT !["api"] = NoTarget]
    /\ exc' = [exc EXCEPT !["api"] = "none"]
    /\ passlog' = [passlog EXCEPT !["api"] = <<>>]
    /\ UNCHANGED << products, prices, now, delay, iteration, appended, worldVars,
                    cleanVars, todo, errlog, notifyVars, charts, scrapeVars,
                    localVars, data >>

\* trigger_iteration: product_db = get_product_or_404(product_id_or_slug), inside
\* the try of the handler; target_product_id = product_db.id
TriggerLookup ==
    /\ pc["api"] = "lookup"
    /\ request.kind = "trigger"
    /\ \E ok \in StorageOutcomes :
         LET db_product == get_product_by_id(products, request.product_id_or_slug)
         IN  IF ~ok
             THEN /\ exc' = [exc EXCEPT !["api"] = "OperationalError"]
                  /\ pc' = [pc EXCEPT !["api"] = "raised"]
                  /\ UNCHANGED target_product_id
             ELSE IF db_product = None
             THEN /\ exc' = [exc EXCEPT !["api"] = "HTTPException(404)"]
                  /\ pc' = [pc EXCEPT !["api"] = "raised"]
                  /\ UNCHANGED target_product_id
             ELSE /\ target_product_id' =
                       [target_product_id EXCEPT !["api"] = db_product[1]]
                  /\ pc' = [pc EXCEPT !["api"] = "pass"]
                  /\ UNCHANGED exc
    /\ UNCHANGED << restVars, request, response, calls >>

\* trigger_iteration: process_new_price_iteration has returned: the confirmation
TriggerReturn ==
    /\ pc["api"] = "returned"
    /\ response' = [status |-> 200, detail |-> "triggered successfully", stats |-> None]
    /\ pc' = [pc EXCEPT !["api"] = "idle"]
    /\ UNCHANGED << restVars, request, calls, target_product_id, exc >>

\* trigger_iteration: except Exception as e: log; raise HTTPException(500)
TriggerCatch ==
    /\ pc["api"] = "raised"
    /\ response' = [status |-> 500, detail |-> exc["api"], stats |-> None]
    /\ pc' = [pc EXCEPT !["api"] = "idle"]
    /\ UNCHANGED << restVars, request, calls, target_product_id, exc >>

\* get_stats: product = Depends(get_product_or_404), resolved before the handler
\* body: a 404 goes to the caller; an sqlite3.Error is unhandled (500)
StatsLookup ==
    /\ pc["api"] = "lookup"
    /\ request.kind = "stats"
    /\ \E ok \in StorageOutcomes :
         LET db_product == get_product_by_id(products, request.product_id_or_slug)
         IN  IF ~ok
             THEN /\ exc' = [exc EXCEPT !["api"] = "OperationalError"]
                  /\ response' = [status |-> 500, detail |-> "OperationalError",
                                   stats |-> None]
                  /\ pc' = [pc EXCEPT !["api"] = "idle"]
             ELSE IF db_product = None
             THEN /\ response' = [status |-> 404, detail |-> "not found", stats |-> None]
                  /\ pc' = [pc EXCEPT !["api"] = "idle"]
                  /\ UNCHANGED exc
             ELSE /\ pc' = [pc EXCEPT !["api"] = "stats"]
                  /\ UNCHANGED << response, exc >>
    /\ UNCHANGED << restVars, request, calls, target_product_id >>

\* get_stats: price_service.get_price_statistics(product.id); get_price_stats
\* logs an sqlite3.Error and raises it again, the handler answers 500
StatsRead ==
    /\ pc["api"] = "stats"
    /\ \E ok \in StorageOutcomes :
         IF ok
         THEN /\ response' =
                   [status |-> 200, detail |-> "stats",
                    stats |-> get_price_stats(prices, request.product_id_or_slug)]
              /\ UNCHANGED exc
         ELSE /\ exc' = [exc EXCEPT !["api"] = "OperationalError"]
              /\ response' = [status |-> 500, detail |-> "OperationalError",
                               stats |-> None]
    /\ pc' = [pc EXCEPT !["api"] = "idle"]
    /\ UNCHANGED << restVars, request, calls, target_product_id >>

Api ==
    \/ ApiCall
    \/ TriggerLookup
    \/ Pass("api")
    \/ TriggerReturn
    \/ TriggerCatch
    \/ StatsLookup
    \/ StatsRead

\* ------------------------------------------------- api/endpoints.py: the queries
\* GET /api/products/{id}/stats, /history/text, /latest-price, /history/image
Queries ==
    [kind : {"stats", "history", "latest_price", "image"},
     product_id_or_slug : ProductIds \cup UnknownIds]

\* the rows of a frame as the body shows them: 'date' renamed to 'timestamp'
to_dict(df) ==
    [i \in 1..Len(df) |-> [timestamp |-> df[i].date, price |-> df[i].price]]

\* the event loop accepts a query and its handler starts on a worker thread
QueryCall ==
    /\ pc["api"] = "idle"
    /\ LoopIsFree
    /\ calls < MaxCalls
    /\ calls' = calls + 1
    /\ \E r \in Queries : request' = r
    /\ pc' = [pc EXCEPT !["api"] = "lookup"]
    /\ response' = [status |-> 0, detail |-> "none", stats |-> None]
    /\ data' = None
    /\ exc' = [exc EXCEPT !["api"] = "none"]
    /\ UNCHANGED << products, prices, now, delay, iteration, appended, worldVars,
                    cleanVars, passVars, target_product_id >>

\* product = Depends(get_product_or_404) of get_history_text, get_latest_price
\* and get_history_image, resolved before the handler body
QueryLookup ==
    /\ pc["api"] = "lookup"
    /\ request.kind \in {"history", "latest_price", "image"}
    /\ \E ok \in StorageOutcomes :
         LET db_product == get_product_by_id(products, request.product_id_or_slug)
         IN  IF ~ok
             THEN /\ exc' = [exc EXCEPT !["api"] = "OperationalError"]
                  /\ response' = [status |-> 500, detail |-> "OperationalError",
                                   stats |-> None]
                  /\ pc' = [pc EXCEPT !["api"] = "idle"]
             ELSE IF db_product = None
             THEN /\ response' = [status |-> 404, detail |-> "not found", stats |-> None]
                  /\ pc' = [pc EXCEPT !["api"] = "idle"]
                  /\ UNCHANGED exc
             ELSE /\ pc' = [pc EXCEPT !["api"] = request.kind]
                  /\ UNCHANGED << response, exc >>
    /\ UNCHANGED << restVars, request, calls, target_product_id >>

\* get_history_text: the frame of the product as records, and its statistics;
\* any exception is answered with 500
HistoryRead ==
    /\ pc["api"] = "history"
    /\ \E conn \in ConnectOutcomes, ok \in StorageOutcomes, stats_ok \in StorageOutcomes :
         IF conn = "raise" \/ ~stats_ok
         THEN /\ exc' = [exc EXCEPT !["api"] = "OperationalError"]
              /\ response' = [status |-> 500, detail |-> "OperationalError",
                               stats |-> None]
              /\ UNCHANGED data
         ELSE /\ data' = to_dict(get_all_price_entries_df(
                                   prices, request.product_id_or_slug, ok))
              /\ response' =
                   [status |-> 200, detail |-> "history",
                    stats |-> get_price_stats(prices, request.product_id_or_slug)]
              /\ UNCHANGED exc
    /\ pc' = [pc EXCEPT !["api"] = "idle"]
    /\ UNCHANGED << products, prices, now, delay, iteration, appended, worldVars,
                    cleanVars, passVars, request, calls, target_product_id >>

\* get_latest_price: no entry: HTTPException(404), which `except HTTPException:
\* raise` lets through; any other exception is answered with 500
LatestRead ==
    /\ pc["api"] = "latest_price"
    /\ \E conn \in ConnectOutcomes, ok \in StorageOutcomes :
         LET latest_entry ==
                 get_latest_price_entry(prices, request.product_id_or_slug, ok)
         IN  IF conn = "raise"
             THEN /\ exc' = [exc EXCEPT !["api"] = "OperationalError"]
                  /\ response' = [status |-> 500, detail |-> "OperationalError",
                                   stats |-> None]
                  /\ UNCHANGED data
             ELSE IF latest_entry = None
             THEN /\ response' = [status |-> 404, detail |-> "No price data found",
                                   stats |-> None]
                  /\ UNCHANGED << data, exc >>
             ELSE /\ response' = [status |-> 200, detail |-> "latest", stats |-> None]
                  /\ data' = << [timestamp |-> latest_entry[1],
                                 price |-> latest_entry[2]] >>
                  /\ UNCHANGED exc
    /\ pc' = [pc EXCEPT !["api"] = "idle"]
    /\ UNCHANGED << products, prices, now, delay, iteration, appended, worldVars,
                    cleanVars, passVars, request, calls, target_product_id >>

\* get_history_image: the chart is drawn anew; without an image path the
\* handler raises HTTPException(404) inside its try, and its only handler,
\* `except Exception`, answers that with 500 like any other exception
ImageRead ==
    /\ pc["api"] = "image"
    /\ \E outcome \in RenderOutcomes, conn \in ConnectOutcomes, ok \in StorageOutcomes :
         LET df == get_all_price_entries_df(prices, request.product_id_or_slug, ok)
         IN  IF conn = "raise"
             THEN /\ exc' = [exc EXCEPT !["api"] = "OperationalError"]
                  /\ response' = [status |-> 500, detail |-> "OperationalError",
                                   stats |-> None]
                  /\ UNCHANGED charts
             ELSE IF df = <<>>
             THEN /\ exc' = [exc EXCEPT !["api"] = "HTTPException(404)"]
                  /\ response' = [status |-> 500, detail |-> "HTTPException(404)",
                                   stats |-> None]
                  /\ UNCHANGED charts
             ELSE IF outcome = "raise"
             THEN /\ exc' = [exc EXCEPT !["api"] = "OSError"]
                  /\ response' = [status |-> 500, detail |-> "OSError", stats |-> None]
                  /\ UNCHANGED charts
             ELSE /\ charts' = [charts EXCEPT ![request.product_id_or_slug] = df]
                  /\ response' = [status |-> 200, detail |-> "image", stats |-> None]
                  /\ UNCHANGED exc
    /\ pc' = [pc EXCEPT !["api"] = "idle"]
    /\ UNCHANGED << products, prices, now, delay, iteration, appended, worldVars,
                    cleanVars, todo, passlog, errlog, notifyVars, scrapeVars,
                    localVars, data, request, calls, target_product_id >>

\* save_price_entry called within the current second
SaveNow ==
    /\ Len(prices) < MaxLen
    /\ \E pid \in ProductIds, price_value \in shown :
         /\ prices' = save_price_entry(prices, pid, price_value, now, TRUE)
         /\ appended' = [appended EXCEPT ![pid] = Append(@, << now, price_value >>)]
    /\ UNCHANGED << products, now, delay, iteration, pc, exc, envVars, cleanVars,
                    passVars >>

\* the query handlers, while prices are being saved
NextQuery ==
    \/ SaveNow
    \/ QueryCall
    \/ StatsLookup
    \/ StatsRead
    \/ QueryLookup
    \/ HistoryRead
    \/ LatestRead
    \/ ImageRead

InitQuery ==
    /\ FirstSleep
    /\ products = AllActive
    /\ delay = DefaultDelay
    /\ shown = StatsPrices
    /\ Healthy

SpecQuery == InitQuery /\ [][NextQuery]_vars

\* ----------------------------------------------------------- the monitor loop
Next ==
    \/ WatchIteration
    \/ Pass("monitor")
    \/ AfterPass
    \/ CatchInLoop
    \/ Clean
    \/ Sleep

Spec == Init /\ [][Next]_vars

\* a catalogue with one active product
InitLive ==
    /\ Started
    /\ products = [AllActive EXCEPT ![2].is_active = FALSE]
    /\ delay \in DelayChoices
    /\ shown = PriceSet
    /\ Healthy

\* the event loop keeps running the task: every step that can be taken is taken
LiveSpec == InitLive /\ [][Next]_vars /\ WF_vars(Next)

TypeOK ==
    /\ pc \in [Procs -> {"idle", "pass", "extract", "latest", "save", "touch",
                         "render", "compare", "except", "returned", "raised",
                         "clean", "clean_read", "clean_delete", "clean_insert",
                         "clean_next", "sleep", "lookup", "stats", "history",
                         "latest_price", "image", "precheck", "insert",
                         "update", "delete"}]
    /\ iteration \in 0..MaxIter
    /\ delay \in DelayChoices \cup {DefaultDelay}
    /\ \A p \in ProductIds : products[p].is_active \in BOOLEAN

\* ------------------------------------------------------ further specifications
\* the pages show DropPrices; every product is active
InitDrop ==
    /\ Started
    /\ products = AllActive
    /\ delay = 43200
    /\ shown = DropPrices
    /\ Healthy

SpecDrop == InitDrop /\ [][Next]_vars

\* the monitor loop and the api handler side by side, with the default
\* DELAY_SECONDS: the compaction is due at iteration 1440, which lies beyond
\* MaxIter, so clean_price_history is never entered
NextApi ==
    \/ WatchIteration
    \/ Pass("monitor")
    \/ AfterPass
    \/ CatchInLoop
    \/ Sleep
    \/ Api

\* product 1 is active, product 2 is not
InitApi ==
    /\ Started
    /\ products = [AllActive EXCEPT ![2].is_active = FALSE]
    /\ delay = DefaultDelay
    /\ shown = ApiPrices
    /\ Healthy

SpecApi == InitApi /\ [][NextApi]_vars

\* the monitor loop with its compaction and the api handler side by side; with
\* DELAY_SECONDS of one day the compaction is due after every pass
NextRace ==
    \/ WatchIteration
    \/ Pass("monitor")
    \/ AfterPass
    \/ CatchInLoop
    \/ Clean
    \/ Sleep
    \/ Api

InitRace ==
    /\ Started
    /\ products = [AllActive EXCEPT ![2].is_active = FALSE]
    /\ delay = SecondsPerDay
    /\ shown = ApiPrices
    /\ Healthy

SpecRace == InitRace /\ [][NextRace]_vars

\* the monitor loop under check periods whose quotient with the day is whole
\* (28800, 43200), lies above one half (50000) and lies below one (100000)
PeriodChoices == {28800, 43200, 50000, 100000}

InitPeriod ==
    /\ Started
    /\ products = AllActive
    /\ delay \in PeriodChoices
    /\ shown = ApiPrices
    /\ Healthy

SpecPeriod == InitPeriod /\ [][Next]_vars

\* the monitor loop with its compaction, and the queries the server answers
\* meanwhile
NextServe ==
    \/ WatchIteration
    \/ Pass("monitor")
    \/ AfterPass
    \/ CatchInLoop
    \/ Clean
    \/ Sleep
    \/ QueryCall
    \/ StatsLookup
    \/ StatsRead
    \/ QueryLookup
    \/ HistoryRead
    \/ LatestRead
    \/ ImageRead

\* one active product; the compaction is due after every pass
InitServe ==
    /\ Started
    /\ products = [AllActive EXCEPT ![2].is_active = FALSE]
    /\ delay = SecondsPerDay
    /\ shown = ApiPrices
    /\ Healthy

SpecServe == InitServe /\ [][NextServe]_vars

\* the monitor loop and the api handler side by side when both products are
\* active; no compaction (default DELAY_SECONDS)
InitTarget ==
    /\ Started
    /\ products = AllActive
    /\ delay = DefaultDelay
    /\ shown = ApiPrices
    /\ Healthy

SpecTarget == InitTarget /\ [][NextApi]_vars

\* ------------------------------------- api/endpoints.py: deletion of a product
\* DELETE /api/products/{product_id_or_slug}
Deletions == [kind : {"delete"}, product_id_or_slug : ProductIds \cup UnknownIds]

\* DELETE FROM products WHERE id = ? on a connection with PRAGMA foreign_keys =
\* ON: the row of the product goes
delete_product(prods, pid) ==
    [p \in DOMAIN prods \ {pid} |-> prods[p]]

\* FOREIGN KEY (product_id) REFERENCES products (id) ON DELETE CASCADE, enforced
\* by the connection that deletes the product: its price rows go with it
on_delete_cascade(tbl, pid) == RowsOfOthers(tbl, pid)

\* the event loop accepts a deletion and its handler starts on a worker thread
DeleteCall ==
    /\ pc["api"] = "idle"
    /\ LoopIsFree
    /\ calls < MaxCalls
    /\ calls' = calls + 1
    /\ \E r \in Deletions : request' = r
    /\ pc' = [pc EXCEPT !["api"] = "lookup"]
    /\ response' = [status |-> 0, detail |-> "none", stats |-> None]
    /\ data' = None
    /\ exc' = [exc EXCEPT !["api"] = "none"]
    /\ UNCHANGED << products, prices, now, delay, iteration, appended, worldVars,
                    cleanVars, passVars, target_product_id >>

\* product_db = Depends(get_product_or_404), resolved before the handler body
DeleteLookup ==
    /\ pc["api"] = "lookup"
    /\ request.kind = "delete"
    /\ LET db_product == get_product_by_id(products, request.product_id_or_slug)
       IN  IF db_product = None
           THEN /\ response' = [status |-> 404, detail |-> "not found", stats |-> None]
                /\ pc' = [pc EXCEPT !["api"] = "idle"]
           ELSE /\ pc' = [pc EXCEPT !["api"] = "delete"]
                /\ UNCHANGED response
    /\ UNCHANGED << restVars, request, calls, target_product_id, exc >>

\* delete_product_endpoint: product_crud_handler.delete_product(product_db.id);
\* rowcount 0 (the product is gone already): False, answered with 500
DeleteProduct ==
    /\ pc["api"] = "delete"
    /\ LET pid == request.product_id_or_slug
       IN  IF pid \in DOMAIN products
           THEN /\ products' = delete_product(products, pid)
                /\ prices' = on_delete_cascade(prices, pid)
                /\ appended' = [appended EXCEPT ![pid] = <<>>]
                /\ response' = [status |-> 204, detail |-> "none", stats |-> None]
           ELSE /\ response' = [status |-> 500, detail |-> "Failed to delete product.",
                                 stats |-> None]
                /\ UNCHANGED << products, prices, appended >>
    /\ pc' = [pc EXCEPT !["api"] = "idle"]
    /\ UNCHANGED << now, delay, iteration, worldVars, cleanVars, passVars, data,
                    request, calls, target_product_id, exc >>

\* the monitor loop with its compaction, and deletions arriving meanwhile
NextDelete ==
    \/ WatchIteration
    \/ Pass("monitor")
    \/ AfterPass
    \/ CatchInLoop
    \/ Clean
    \/ Sleep
    \/ DeleteCall
    \/ DeleteLookup
    \/ DeleteProduct

\* both products are active; with DELAY_SECONDS of one day the compaction is due
\* after every pass
InitDelete ==
    /\ Started
    /\ products = AllActive
    /\ delay = SecondsPerDay
    /\ shown = ApiPrices
    /\ Healthy

SpecDelete == InitDelete /\ [][NextDelete]_vars

\* the monitor loop and the api handler side by side on pages that show
\* DropPrices; no compaction (default DELAY_SECONDS)
InitTrigger ==
    /\ Started
    /\ products = [AllActive EXCEPT ![2].is_active = FALSE]
    /\ delay = DefaultDelay
    /\ shown = DropPrices
    /\ Healthy

SpecTrigger == InitTrigger /\ [][NextApi]_vars

\* the api handler alone, with a storage that may fail: the database file
\* cannot be opened (sqlite3.connect raises) or a statement meets an
\* sqlite3.Error
InitFault ==
    /\ FirstSleep
    /\ products = [AllActive EXCEPT ![2].is_active = FALSE]
    /\ delay = DefaultDelay
    /\ shown = ApiPrices
    /\ faulty = TRUE
    /\ offline = FALSE
    /\ configured = TRUE

SpecFault == InitFault /\ [][Api]_vars

\* the monitor loop with the default DELAY_SECONDS when the requests to the shops and to Telegram may fail
\* and the chart file may be missing; the channel is configured or not
InitNotify ==
    /\ Started
    /\ products = [AllActive EXCEPT ![2].is_active = FALSE]
    /\ delay = DefaultDelay
    /\ shown = DropPrices
    /\ faulty = TRUE
    /\ offline = TRUE
    /\ configured \in BOOLEAN

\* the monitor loop without the compaction
NextMonitor ==
    \/ WatchIteration
    \/ Pass("monitor")
    \/ AfterPass
    \/ CatchInLoop
    \/ Sleep

SpecNotify == InitNotify /\ [][NextMonitor]_vars

\* the monitor loop on a page that shows 90, 100 or a price of more than 309
\* digits; one active product, no compaction (default DELAY_SECONDS)
OverflowPrices == {90, 100, Infinity}

InitOverflow ==
    /\ Started
    /\ products = [AllActive EXCEPT ![2].is_active = FALSE]
    /\ delay = DefaultDelay
    /\ shown = OverflowPrices
    /\ Healthy

SpecOverflow == InitOverflow /\ [][NextMonitor]_vars

\* the monitor loop when only the requests may fail: the storage is sound
InitOffline ==
    /\ Started
    /\ products = AllActive
    /\ delay = DefaultDelay
    /\ shown = ApiPrices
    /\ faulty = FALSE
    /\ offline = TRUE
    /\ configured = TRUE

SpecOffline == InitOffline /\ [][NextMonitor]_vars

\* save_price_entry called at any reading of the wall clock (datetime.now() is
\* local time and may step back)
StoreAppend ==
    /\ Len(prices) < MaxLen
    /\ \E pid \in ProductIds, price_value \in shown, t \in 0..MaxTime :
         /\ now' = t
         /\ prices' = save_price_entry(prices, pid, price_value, t, TRUE)
         /\ appended' = [appended EXCEPT ![pid] = Append(@, << t, price_value >>)]
    /\ UNCHANGED << products, delay, iteration, pc, exc, envVars, cleanVars,
                    passVars >>

InitStore ==
    /\ Started
    /\ products = AllActive
    /\ delay = 43200
    /\ shown = PriceSet
    /\ Healthy

SpecStore == InitStore /\ [][StoreAppend]_vars

\* ------------------------------------------ the monitor loop on the wall clock
\* await asyncio.sleep(settings.DELAY_SECONDS); the timestamps are readings of
\* datetime.now(), local time without zone, which may step back between two
\* passes (end of daylight saving time, a clock adjustment)
SleepWallClock ==
    /\ pc["monitor"] = "sleep"
    /\ now' \in 0..MaxTime
    /\ pc' = [pc EXCEPT !["monitor"] = "idle"]
    /\ UNCHANGED << products, prices, delay, iteration, exc, appended, envVars,
                    cleanVars, passVars >>

NextWallClock ==
    \/ WatchIteration
    \/ Pass("monitor")
    \/ AfterPass
    \/ CatchInLoop
    \/ Clean
    \/ SleepWallClock

\* one product, compaction after every pass, nothing fails
InitWallClock ==
    /\ Started
    /\ products = [p \in ProductIds |->
                     [is_active |-> p = 1, last_checked_at |-> NULL]]
    /\ delay = SecondsPerDay
    /\ shown = PriceSet
    /\ Healthy

SpecWallClock == InitWallClock /\ [][NextWallClock]_vars

\* ------------------------------------------- the extractor (get_product_info)
\* A text is a sequence of characters. None and the empty text are both the
\* empty sequence; the code tests either with `not`.
Digits == << "0", "1", "2", "3", "4", "5", "6", "7", "8", "9" >>

\* str.isdigit on the characters used here
isdigit(x) == \E d \in 1..Len(Digits) : Digits[d] = x

\* str.strip: the text without its leading and trailing blanks
strip(text) ==
    LET solid == {i \in 1..Len(text) : text[i] # " "}
        first == CHOOSE i \in solid : \A j \in solid : i <= j
        last == CHOOSE i \in solid : \A j \in solid : j <= i
    IN  IF solid = {} THEN <<>> ELSE SubSeq(text, first, last)

\* ''.join(filter(lambda x: x.isdigit() or x == '.' or x == ',', raw_price))
cleaned_price(raw_price) ==
    SelectSeq(raw_price, LAMBDA x : isdigit(x) \/ x = "." \/ x = ",")

\* cleaned_price.replace(",", ".")
replace_comma(cleaned) ==
    [i \in 1..Len(cleaned) |-> IF cleaned[i] = "," THEN "." ELSE cleaned[i]]

\* the number written by a run of digits
RECURSIVE DigitsValue(_)
DigitsValue(ds) ==
    IF ds = <<>> THEN 0
    ELSE 10 * DigitsValue(SubSeq(ds, 1, Len(ds) - 1))
           + (CHOOSE d \in 0..9 : Digits[d + 1] = ds[Len(ds)])

\* a decimal << mantissa, scale >> stands for mantissa / 10^scale; the same
\* number has one form, the one with the least scale
RECURSIVE Decimal(_, _)
Decimal(mantissa, scale) ==
    IF scale > 0 /\ mantissa % 10 = 0 THEN Decimal(mantissa \div 10, scale - 1)
    ELSE << mantissa, scale >>

\* what float() gives when the text is no number
ValueError == << "ValueError" >>

\* float('inf'): what float() gives for a number above the largest double
inf == << "inf" >>

\* the largest double, about 1.8 * 10^308, has 309 digits before the point
MaxFloatDigits == 309

\* the digits before the point, leading zeros not counted
WholeDigits(price_str) ==
    LET dots == {i \in 1..Len(price_str) : price_str[i] = "."}
        k == IF dots = {} THEN Len(price_str) ELSE (CHOOSE i \in dots : TRUE) - 1
        significant == {i \in 1..k : \E j \in 1..i : price_str[j] # "0"}
    IN  Cardinality(significant)

\* float(price_str) for a text of digits and '.', which is all that the filter
\* lets through: a number when the text has a digit and at most one '.', else
\* ValueError; a number with more digits than a double can hold is inf
float(price_str) ==
    LET dots == {i \in 1..Len(price_str) : price_str[i] = "."}
        digits == SelectSeq(price_str, isdigit)
        dot == CHOOSE i \in dots : TRUE
    IN  IF Cardinality(dots) > 1 \/ digits = <<>> THEN ValueError
        ELSE IF WholeDigits(price_str) > MaxFloatDigits THEN inf
        ELSE IF dots = {} THEN Decimal(DigitsValue(digits), 0)
        ELSE Decimal(DigitsValue(digits), Len(price_str) - dot)

\* an extractor that does not call raise_for_status: the body of an error
\* response is parsed like any page
get_product_info_unchecked(r) ==
    LET price_str == IF r.price_element # <<>>
                     THEN replace_comma(cleaned_price(strip(r.price_element[1])))
                     ELSE None
        product_name == IF r.name_element # <<>> THEN strip(r.name_element[1])
                        ELSE None
    IN  IF r.failure \notin {"none", "HTTPError"} THEN << None, None >>
        ELSE IF product_name # <<>> /\ price_str # <<>>
        THEN IF float(price_str) = ValueError THEN << product_name, None >>
             ELSE << product_name, float(price_str) >>
        ELSE << product_name, None >>

\* get_product_info after the request: r.failure is "none" when requests.get
\* and raise_for_status went through, r.price_element and r.name_element are
\* the texts of the elements that soup.select finds
get_product_info(r) ==
    LET price_str == IF r.price_element # <<>>
                     THEN replace_comma(cleaned_price(strip(r.price_element[1])))
                     ELSE None
        product_name == IF r.name_element # <<>> THEN strip(r.name_element[1])
                        ELSE None
    IN  IF r.failure # "none" THEN << None, None >>
        ELSE IF product_name # <<>> /\ price_str # <<>>
        THEN IF float(price_str) = ValueError THEN << product_name, None >>
             ELSE << product_name, float(price_str) >>
        ELSE << product_name, None >>

\* the price texts of the pages
PlainPrice == << "2", "0" >>
PointPrice == << " ", "1", "9", ".", "9", "0", " " >>
CommaPrice == << "€", " ", "1", "9", ",", "9", "9" >>
InclPrice == << "€", " ", "1", "9", ",", "9", "9", " ", "i", "n", "c", "l", "." >>
GroupedPrice == << "1", ".", "2", "9", "9", ",", "0", "0" >>
SoldOut == << "n", "/", "a" >>
\* a price text of 310 digits
HugePrice == [i \in 1..(MaxFloatDigits + 1) |-> "9"]
PriceTexts ==
    {PlainPrice, PointPrice, CommaPrice, InclPrice, GroupedPrice, SoldOut, HugePrice}

NameTexts == { << "T", "V" >>, << " " >> }

Failures == {"ConnectionError", "Timeout", "HTTPError"}

Pages ==
    [failure : {"none"} \cup Failures,
     price_element : {<<>>} \cup {<< t >> : t \in PriceTexts},
     name_element : {<<>>} \cup {<< t >> : t \in NameTexts}]

extractVars == << products, prices, now, delay, iteration, pc, exc, appended,
                  shown, faulty, offline, configured, apiVars, cleanVars,
                  passVars >>

\* requests.get(url, timeout=10) answers or fails
GetPage ==
    /\ page = None
    /\ \E r \in Pages : page' = r
    /\ info' = None
    /\ UNCHANGED extractVars

\* the rest of get_product_info, up to its return
ParsePage ==
    /\ page # None
    /\ info = None
    /\ info' = get_product_info(page)
    /\ UNCHANGED << page, extractVars >>

\* the caller has the result; the next call starts afresh
NextPage ==
    /\ info # None
    /\ page' = None
    /\ info' = None
    /\ UNCHANGED extractVars

NextExtract == GetPage \/ ParsePage \/ NextPage

InitExtract ==
    /\ Started
    /\ products = AllActive
    /\ delay = DefaultDelay
    /\ shown = PriceSet
    /\ Healthy

SpecExtract == InitExtract /\ [][NextExtract]_vars

\* ------------------------------------------------ the catalogue (product CRUD)
\* In the catalogue specification the products table is the sequence of its
\* rows in the order of their ids, each with its slug, url, is_active and
\* last_checked_at.
UpperCase == << "A", "B", "C", "D", "E", "F", "G", "H", "I", "J", "K", "L", "M",
                "N", "O", "P", "Q", "R", "S", "T", "U", "V", "W", "X", "Y", "Z" >>
LowerCase == << "a", "b", "c", "d", "e", "f", "g", "h", "i", "j", "k", "l", "m",
                "n", "o", "p", "q", "r", "s", "t", "u", "v", "w", "x", "y", "z" >>

\* str.lower on one character
lower(x) ==
    IF \E k \in 1..Len(UpperCase) : UpperCase[k] = x
    THEN LowerCase[CHOOSE k \in 1..Len(UpperCase) : UpperCase[k] = x]
    ELSE x

\* \w of the regular expressions
IsWordChar(x) ==
    \/ \E k \in 1..Len(LowerCase) : LowerCase[k] = x \/ UpperCase[k] = x
    \/ isdigit(x)
    \/ x = "_"

\* [\s_-]
IsSeparator(x) == x \in {" ", "_", "-"}

\* generate_slug: lower and strip; drop what is not \w, blank or hyphen; every
\* run of blanks, underscores and hyphens becomes one hyphen; no hyphen at
\* either end
generate_slug(name) ==
    LET lowered == strip([i \in 1..Len(name) |-> lower(name[i])])
        kept == SelectSeq(lowered, LAMBDA x : IsWordChar(x) \/ x = " " \/ x = "-")
        heads == {i \in 1..Len(kept) :
                    ~IsSeparator(kept[i]) \/ i = 1 \/ ~IsSeparator(kept[i - 1])}
        nth(k) == CHOOSE i \in heads : Cardinality({j \in heads : j < i}) = k - 1
        joined == [k \in 1..Cardinality(heads) |->
                     IF IsSeparator(kept[nth(k)]) THEN "-" ELSE kept[nth(k)]]
        solid == {i \in 1..Len(joined) : joined[i] # "-"}
        first == CHOOSE i \in solid : \A j \in solid : i <= j
        last == CHOOSE i \in solid : \A j \in solid : j <= i
    IN  IF solid = {} THEN <<>> ELSE SubSeq(joined, first, last)

\* str(product.url): pydantic's HttpUrl gives a URL without a path the path "/"
HttpUrl(url) == IF url = "http://a.example" THEN "http://a.example/" ELSE url

\* the names, slugs and URLs of the requests
ProductNames == { << "T", "V" >>, << " ", "t", "v", "!" >>,
                  << "H", "i", "-", "F", "i" >>, << "h", "i", "_", " ", "f", "i" >> }
GivenSlugs == { << "t", "v" >>, << "H", "I", "-", "F", "I" >> }
GivenUrls == { "http://a.example", "http://a.example/", "http://b.example/" }

\* ProductCreate after validation: set_slug has put generate_slug(slug or name)
\* into slug; a None here is an optional field that was not given
ProductCreate ==
    { [slug |-> generate_slug(IF s = None THEN n ELSE s), url |-> HttpUrl(u),
       is_active |-> a] :
        n \in ProductNames, s \in {None} \cup GivenSlugs, u \in GivenUrls,
        a \in BOOLEAN }

\* ProductUpdate after validation; a field that is None is left out of the SET
\* clause. A given url stays an HttpUrl object.
ProductUpdate ==
    [slug : {None} \cup {generate_slug(s) : s \in GivenSlugs},
     url : {None} \cup {<< HttpUrl(u) >> : u \in GivenUrls},
     is_active : {None} \cup {<< a >> : a \in BOOLEAN}]

\* some row other than `except` has the slug, or the url: UNIQUE is violated
SlugTaken(prods, slug, except) ==
    \E i \in DOMAIN prods : i # except /\ prods[i].slug = slug
UrlTaken(prods, url, except) ==
    \E i \in DOMAIN prods : i # except /\ prods[i].url = url

\* a table without its UNIQUE constraints
create_product_unconstrained(prods, product_in, ok) ==
    IF ok
    THEN Append(prods, [slug |-> product_in.slug, url |-> product_in.url,
                        is_active |-> product_in.is_active, last_checked_at |-> NULL])
    ELSE prods

\* INSERT INTO products ...; sqlite3.IntegrityError (slug or url exists) and any
\* other sqlite3.Error: log, nothing is inserted, None
create_product(prods, product_in, ok) ==
    IF ok /\ ~SlugTaken(prods, product_in.slug, 0) /\ ~UrlTaken(prods, product_in.url, 0)
    THEN Append(prods, [slug |-> product_in.slug, url |-> product_in.url,
                        is_active |-> product_in.is_active, last_checked_at |-> NULL])
    ELSE prods

\* UPDATE products SET <the given fields> WHERE id = ?. The url of the update
\* is an HttpUrl object, which sqlite3 cannot bind: the statement is not run.
\* sqlite3.IntegrityError and any other sqlite3.Error: log, no change, None
update_product(prods, pid, product_update, ok) ==
    IF /\ ok
       /\ pid \in DOMAIN prods
       /\ product_update.url = None
       /\ product_update.slug # None => ~SlugTaken(prods, product_update.slug, pid)
    THEN [prods EXCEPT
            ![pid].slug = IF product_update.slug # None
                          THEN product_update.slug ELSE @,
            ![pid].is_active = IF product_update.is_active # None
                               THEN product_update.is_active[1] ELSE @]
    ELSE prods

catalogueVars == << prices, now, delay, iteration, appended, worldVars, cleanVars,
                    passVars, target_product_id >>

\* POST /api/products/ arrives with a valid ProductCreate
CreateCall ==
    /\ pc["api"] = "idle"
    /\ LoopIsFree
    /\ calls < MaxCalls
    /\ Len(products) < MaxProducts
    /\ calls' = calls + 1
    /\ \E product_in \in ProductCreate : data' = << product_in >>
    /\ request' = [kind |-> "create", product_id_or_slug |-> NoTarget]
    /\ pc' = [pc EXCEPT !["api"] = "precheck"]
    /\ response' = [status |-> 0, detail |-> "none", stats |-> None]
    /\ exc' = [exc EXCEPT !["api"] = "none"]
    /\ UNCHANGED << products, catalogueVars >>

\* create_product_endpoint: get_product_by_url and get_product_by_slug; a hit
\* is answered with 409
CreateCheck ==
    /\ pc["api"] = "precheck"
    /\ \E ok \in StorageOutcomes :
         IF ~ok
         THEN /\ exc' = [exc EXCEPT !["api"] = "OperationalError"]
              /\ response' = [status |-> 500, detail |-> "OperationalError",
                               stats |-> None]
              /\ pc' = [pc EXCEPT !["api"] = "idle"]
         ELSE IF UrlTaken(products, data[1].url, 0)
                   \/ SlugTaken(products, data[1].slug, 0)
         THEN /\ response' = [status |-> 409, detail |-> "already exists",
                               stats |-> None]
              /\ pc' = [pc EXCEPT !["api"] = "idle"]
              /\ UNCHANGED exc
         ELSE /\ pc' = [pc EXCEPT !["api"] = "insert"]
              /\ UNCHANGED << response, exc >>
    /\ UNCHANGED << products, catalogueVars, request, calls, data >>

\* create_product_endpoint: product_crud_handler.create_product(product); None
\* is answered with 500
CreateInsert ==
    /\ pc["api"] = "insert"
    /\ \E ok \in StorageOutcomes :
         /\ products' = create_product(products, data[1], ok)
         /\ response' = IF products' = products
                        THEN [status |-> 500, detail |-> "Failed to create product_in",
                              stats |-> None]
                        ELSE [status |-> 201, detail |-> "created", stats |-> None]
    /\ pc' = [pc EXCEPT !["api"] = "idle"]
    /\ UNCHANGED << catalogueVars, request, calls, exc, data >>

\* PUT /api/products/{id} arrives with a valid ProductUpdate
UpdateCall ==
    /\ pc["api"] = "idle"
    /\ LoopIsFree
    /\ calls < MaxCalls
    /\ calls' = calls + 1
    /\ \E product_update \in ProductUpdate : data' = << product_update >>
    /\ \E pid \in 1..MaxProducts :
         request' = [kind |-> "update", product_id_or_slug |-> pid]
    /\ pc' = [pc EXCEPT !["api"] = "lookup"]
    /\ response' = [status |-> 0, detail |-> "none", stats |-> None]
    /\ exc' = [exc EXCEPT !["api"] = "none"]
    /\ UNCHANGED << products, catalogueVars >>

\* product_db = Depends(get_product_or_404) of update_product_endpoint
UpdateLookup ==
    /\ pc["api"] = "lookup"
    /\ request.kind = "update"
    /\ \E ok \in StorageOutcomes :
         IF ~ok
         THEN /\ exc' = [exc EXCEPT !["api"] = "OperationalError"]
              /\ response' = [status |-> 500, detail |-> "OperationalError",
                               stats |-> None]
              /\ pc' = [pc EXCEPT !["api"] = "idle"]
         ELSE IF get_product_by_id(products, request.product_id_or_slug) = None
         THEN /\ response' = [status |-> 404, detail |-> "not found", stats |-> None]
              /\ pc' = [pc EXCEPT !["api"] = "idle"]
              /\ UNCHANGED exc
         ELSE /\ pc' = [pc EXCEPT !["api"] = "update"]
              /\ UNCHANGED << response, exc >>
    /\ UNCHANGED << products, catalogueVars, request, calls, data >>

\* no field of the update is given: update_product returns the row as it is
NoFields(product_update) ==
    /\ product_update.slug = None
    /\ product_update.url = None
    /\ product_update.is_active = None

\* update_product_endpoint: product_crud_handler.update_product(...); None is
\* answered with 409
UpdateWrite ==
    /\ pc["api"] = "update"
    /\ \E ok \in StorageOutcomes :
         /\ products' = IF NoFields(data[1]) THEN products
                        ELSE update_product(products, request.product_id_or_slug,
                                            data[1], ok)
         /\ response' =
              IF NoFields(data[1])
                   \/ (/\ ok
                       /\ data[1].url = None
                       /\ data[1].slug # None
                            => ~SlugTaken(products, data[1].slug,
                                          request.product_id_or_slug))
              THEN [status |-> 200, detail |-> "updated", stats |-> None]
              ELSE [status |-> 409, detail |-> "Failed to update product_in",
                    stats |-> None]
    /\ pc' = [pc EXCEPT !["api"] = "idle"]
    /\ UNCHANGED << catalogueVars, request, calls, exc, data >>

\* the INSERT of a create that another worker thread is serving
OtherCreate ==
    /\ Len(products) < MaxProducts
    /\ \E product_in \in ProductCreate :
         products' = create_product(products, product_in, TRUE)
    /\ UNCHANGED << catalogueVars, request, response, calls, pc, exc, data >>

\* the UPDATE of an update that another worker thread is serving
OtherUpdate ==
    /\ \E pid \in DOMAIN products, product_update \in ProductUpdate :
         products' = update_product(products, pid, product_update, TRUE)
    /\ UNCHANGED << catalogueVars, request, response, calls, pc, exc, data >>

NextCatalogue ==
    \/ CreateCall
    \/ CreateCheck
    \/ CreateInsert
    \/ UpdateCall
    \/ UpdateLookup
    \/ UpdateWrite
    \/ OtherCreate
    \/ OtherUpdate

\* the products table is empty after init_db
InitCatalogue ==
    /\ FirstSleep
    /\ products = <<>>
    /\ delay = DefaultDelay
    /\ shown = ApiPrices
    /\ Healthy

SpecCatalogue == InitCatalogue /\ [][NextCatalogue]_vars

\* ------------------------------------------------------------------ observers
Range(seq) == {seq[i] : i \in 1..Len(seq)}

\* the stored series of a product, as all() returns it
Series(p) == get_all_price_entries_df(prices, p, TRUE)

\* the current pass has taken the product up and is through with it
Completed(p) ==
    /\ p \in Range(passlog["monitor"])
    /\ p \notin Range(todo["monitor"])

\* the monitor is inside, or just out of, process_new_price_iteration
InPass ==
    pc["monitor"] \in {"extract", "latest", "save", "touch", "render", "compare",
                       "except", "returned", "raised"}

NotificationsOf(p) == SelectSeq(notifications, LAMBDA m : m.product = p)

Count(seq, x) == Cardinality({i \in 1..Len(seq) : seq[i] = x})

\* the compaction of the product Head(cleanTodo) has read a non-empty series
Compacting == pc["monitor"] \in {"clean_delete", "clean_insert", "clean_next"}
                /\ snapshot # <<>>

\* the compaction of the product Head(cleanTodo) is through
Compacted == pc["monitor"] = "clean_next" /\ snapshot # <<>>

\* the rows kept by the explicit loop of clean_price_history_db: per week the
\* earliest point when all the points of the week have one price, else every
\* point of the week
WeeklyRetained(df) ==
    LET weeks == AscendingKeys({week_num(df[i].date) : i \in 1..Len(df)})
        group(k) == GroupRows(df, weeks[k])
    IN  Concat([k \in 1..Len(weeks) |->
                  IF nunique(group(k)) = 1 THEN << group(k)[1] >> ELSE group(k)])

\* ---------------------------------------------------------------------- claims

\* C1: when the processing of one product raises, the exception is caught and
\* logged with the product's identity, the remaining products of the pass are
\* still processed, and the pass does not raise.
C1_FailureIsolated ==
    /\ pc["monitor"] # "raised"
    /\ pc["monitor"] = "returned" =>
         /\ \A p \in ProductIds : products[p].is_active => Completed(p)
         /\ \A p \in ProductIds :
              (Completed(p) /\ scraped[p][Len(scraped[p])] = RAISED) => p \in errlog

\* C4: replacing a series during compaction is atomic: whatever step an error
\* or crash stops it at, the series is entirely the old one or entirely the
\* retained one, and a product that had points never has none.
C4_ReplaceAtomic ==
    Compacting =>
        LET s == Series(Head(cleanTodo))
            retained == [i \in 1..Len(keep) |->
                           [date |-> keep[i].timestamp, price |-> keep[i].price]]
        IN  /\ s = snapshot \/ s = retained
            /\ s # <<>>

\* C5: compaction keeps, per week, exactly the earliest point when all the
\* points of the week have the same price and every point of the week
\* otherwise; the result is the retained points in chronological order.
C5_CompactionRule ==
    Compacted => Series(Head(cleanTodo)) = WeeklyRetained(snapshot)

\* C6: after the compaction of a product the number of points does not exceed
\* the number before, and a series that was non-empty is non-empty (at least
\* one point for every week that had points).
C6_CompactionBounds ==
    Compacted =>
        LET s == Series(Head(cleanTodo))
        IN  /\ Len(s) <= Len(snapshot)
            /\ s # <<>>
            /\ {week_num(s[i].date) : i \in 1..Len(s)}
                 = {week_num(snapshot[i].date) : i \in 1..Len(snapshot)}

\* C10: on every iteration whose number is a positive multiple of the
\* compaction period, compaction runs exactly once, after the check pass of
\* that iteration has finished; on no other iteration does it run.
C10_CompactionWhenDue ==
    LET n == iterations_per_day(delay)
        due == n > 0 /\ iteration % n = 0
    IN  /\ pc["monitor"] = "sleep" =>
              Count(cleanlog, iteration) = (IF due THEN 1 ELSE 0)
        /\ pc["monitor"] = "clean" => todo["monitor"] = <<>>

\* the last element of a non-empty sequence
Last(seq) == seq[Len(seq)]

\* C2: when a product is processed with a non-null price, a notification is
\* issued if and only if a previous point exists and the price is below its
\* price, the previous point being the latest one stored before the append of
\* this processing; from 100 to 90 the notified discount is 10.00.
C2_NotifyIffDrop ==
    [][ pc["monitor"] = "compare" =>
          LET p == product("monitor")
              rows == SelectRows(prices, p)
              n == Len(rows)
              price == current_price["monitor"]
              drop == n >= 2 /\ price < rows[n - 1].price
          IN  /\ n >= 1 /\ rows[n].price = price
              /\ (notifications' # notifications) <=> drop
              /\ drop =>
                   /\ Len(notifications') = Len(notifications) + 1
                   /\ SubSeq(notifications', 1, Len(notifications)) = notifications
                   /\ Last(notifications').product = p
                   /\ Last(notifications').previous = rows[n - 1].price
                   /\ Last(notifications').current = price
                   /\ (rows[n - 1].price = 100 /\ price = 90)
                        => Last(notifications').discount = 1000
      ]_vars

\* a drop from 100 to 90 has been notified with discount 10.00
C2_Witness ==
    \E i \in 1..Len(notifications) :
        /\ notifications[i].previous = 100
        /\ notifications[i].current = 90
        /\ notifications[i].discount = 1000

\* an extraction history that ends with the given prices and whose earlier
\* extractions gave no price
FirstPrices(p, given) ==
    LET k == Len(scraped[p]) - Len(given)
    IN  /\ k >= 0
        /\ SubSeq(scraped[p], k + 1, Len(scraped[p])) = given
        /\ \A i \in 1..k : scraped[p][i] \in {NULL, RAISED}

\* C3: for a product with no prior points, a first pass that extracts 25
\* persists exactly one point, sends no notification, draws the chart from the
\* one-point series and updates last-checked; the next pass, extracting 20,
\* persists a second point and sends exactly one notification, discount 20.00.
C3_EndToEnd ==
    \A p \in ProductIds :
        LET rows == SelectRows(prices, p)
            sent == NotificationsOf(p)
        IN  /\ (InPass /\ Completed(p) /\ FirstPrices(p, << 25 >>)) =>
                  /\ Len(rows) = 1 /\ rows[1].price = 25
                  /\ sent = <<>>
                  /\ charts[p] = << [date |-> rows[1].timestamp, price |-> 25] >>
                  /\ products[p].last_checked_at = rows[1].timestamp
            /\ (InPass /\ Completed(p) /\ FirstPrices(p, << 25, 20 >>)) =>
                  /\ Len(rows) = 2 /\ rows[1].price = 25 /\ rows[2].price = 20
                  /\ Len(sent) = 1
                  /\ sent[1].previous = 25 /\ sent[1].current = 20
                  /\ sent[1].discount = 2000
                  /\ products[p].last_checked_at = rows[2].timestamp

\* the second pass of a product has extracted 20 after 25 and has notified
C3_Witness ==
    \E p \in ProductIds :
        /\ InPass /\ Completed(p) /\ FirstPrices(p, << 25, 20 >>)
        /\ Len(NotificationsOf(p)) = 1

\* C7: every check attempt in which the extraction returns (a price or none)
\* updates last-checked; when it returns no price, last-checked is updated and
\* no point is appended, no chart drawn and no notification sent.
C7_LastCheckedUpdated ==
    /\ [](\A p \in ProductIds :
            (InPass /\ Completed(p) /\ Last(scraped[p]) # RAISED)
                => products[p].last_checked_at = now)
    /\ [][ \A p \in ProductIds :
             scraped'[p] = Append(scraped[p], NULL) =>
                 /\ products'[p].last_checked_at = now
                 /\ prices' = prices
                 /\ charts' = charts
                 /\ notifications' = notifications ]_vars

\* an extraction returned no price: last-checked is set, no point is stored
C7_Witness ==
    \E p \in ProductIds :
        /\ InPass /\ Completed(p)
        /\ Last(scraped[p]) = NULL
        /\ products[p].last_checked_at = now
        /\ SelectRows(prices, p) = <<>>

\* C8: for every sequence of appended points, all() returns exactly those
\* points in non-decreasing timestamp order (none: the empty sequence) and
\* latest() returns the point appended last (none: null).
C8_AllAndLatest ==
    \A p \in ProductIds :
        LET all == get_all_price_entries_df(prices, p, TRUE)
            latest == get_latest_price_entry(prices, p, TRUE)
            points == [i \in 1..Len(all) |-> << all[i].date, all[i].price >>]
        IN  /\ \A i \in 1..(Len(all) - 1) : all[i].date <= all[i + 1].date
            /\ Len(all) = Len(appended[p])
            /\ \A pt \in Range(points) \cup Range(appended[p]) :
                   Count(points, pt) = Count(appended[p], pt)
            /\ latest = IF appended[p] = <<>> THEN None ELSE Last(appended[p])

\* points were appended while the clock stepped back: the point appended last
\* is not the one with the latest timestamp
C8_Witness ==
    \E p \in ProductIds :
        /\ Len(appended[p]) >= 2
        /\ \E i \in 1..(Len(appended[p]) - 1) : appended[p][i][1] > Last(appended[p])[1]

\* C9: the monitor loop never ends on its own: after every iteration, also one
\* in which the pass or the compaction test raised, it sleeps and then starts
\* the next iteration with the counter incremented by exactly one.
C9_LoopGoesOn ==
    /\ [][ iteration' # iteration =>
             /\ iteration' = iteration + 1
             /\ pc["monitor"] = "idle" ]_vars
    /\ [][ pc'["monitor"] = "idle" => pc["monitor"] \in {"idle", "sleep"} ]_vars
    /\ [][ pc["monitor"] = "raised" => pc'["monitor"] = "sleep" ]_vars
    /\ [][ (exc'["monitor"] = "ZeroDivisionError" /\ exc["monitor"] = "none")
             => pc'["monitor"] = "sleep" ]_vars
    /\ \A i \in 0..(MaxIter - 1) : (iteration = i) ~> (iteration = i + 1)

\* an iteration whose pass raised has reached the sleep
C9_Witness ==
    /\ pc["monitor"] = "sleep"
    /\ exc["monitor"] = "TypeError"
    /\ iteration >= 1

\* the api handler has answered a trigger request that named a product
TriggerAnswered ==
    /\ request.kind = "trigger"
    /\ request.product_id_or_slug # NoTarget
    /\ pc["api"] = "idle"
    /\ response.status # 0

\* the product a request names is a row of the products table and is active
NamesActiveProduct ==
    /\ request.product_id_or_slug \in DOMAIN products
    /\ products[request.product_id_or_slug].is_active

\* C11: a manual trigger naming a product that does not exist or is not active
\* answers with a not-found failure (neither a success nor a server error) and
\* processes no product.
C11_TriggerNotFound ==
    (TriggerAnswered /\ ~NamesActiveProduct) =>
        /\ response.status = 404
        /\ passlog["api"] = <<>>

\* C12: an untargeted pass processes every active product exactly once, however
\* many there are, and no inactive product: no extraction, no point and no
\* last-checked update for it.
C12_ActiveOnce ==
    \A p \in ProductIds :
        /\ pc["monitor"] \in {"returned", "raised"} =>
               Count(passlog["monitor"], p) = IF products[p].is_active THEN 1 ELSE 0
        /\ ~products[p].is_active =>
               /\ scraped[p] = <<>>
               /\ SelectRows(prices, p) = <<>>
               /\ products[p].last_checked_at = NULL

\* the activity is processing product p and has extracted a price it has not
\* stored yet
AboutToSave(self, p) ==
    /\ pc[self] \in {"latest", "save"}
    /\ product(self) = p

\* the prices the extractions of product p returned so far
PricesScraped(p) == SelectSeq(scraped[p], LAMBDA v : v \notin {NULL, RAISED})

C14_ExtractorRule ==
    (page # None /\ info # None /\ page.failure = "none") =>
        /\ (page.price_element = << InclPrice >> /\ info[1] # None)
              => info[2] = Decimal(1999, 2)
        /\ page.price_element = <<>> => info[2] = None

\* C15: save_price_entry never fails its caller: whatever the storage does, the
\* call returns without raising and the product's processing goes on to the
\* update of last_checked_at; when the insert failed the table is unchanged.
C15_AppendNeverFails ==
    [][\A self \in Procs :
         (pc[self] = "save" /\ pc'[self] # "save") =>
            /\ pc'[self] = "touch"
            /\ exc'[self] = "none"
            /\ prices' = prices \/ Len(prices') = Len(prices) + 1]_vars

\* C16: no read of the prices table or of the products table (product listing
\* and lookup at the start of a pass and in the api handlers, latest entry,
\* statistics) lets a storage error reach its caller.
C16_ReadsNeverRaise ==
    [][\A self \in Procs :
         pc[self] \in {"pass", "lookup", "latest", "stats"}
            => exc'[self] # "OperationalError"]_vars

\* the requests that the step has added to those made to Telegram
NewSends == SubSeq(sends', Len(sends) + 1, Len(sends'))

\* the step is a call of send_telegram_message by the activity
Notifies(self) ==
    /\ pc[self] = "compare"
    /\ pc'[self] # "compare"
    /\ notifications' # notifications

\* the step leaves _process_single_product through its end
ProductCompletes(self) ==
    /\ exc'[self] = "none"
    /\ pc'[self] \in {"extract", "returned"}
    /\ todo'[self] = Tail(todo[self])

C18_UnconfiguredNoop ==
    [][\A self \in Procs :
         (Notifies(self) /\ ~configured) =>
            /\ sends' = sends
            /\ sends = <<>>
            /\ ProductCompletes(self)]_vars

\* a price drop was notified with the channel not configured, and the pass
\* went on to its end
C18_Witness ==
    /\ ~configured
    /\ notifications # <<>>
    /\ sends = <<>>
    /\ pc["monitor"] = "returned"
    /\ exc["monitor"] = "none"

\* the step is the extraction of a product by the activity, and the request
\* failed (no connection, timeout, or a status of 400 and above)
FetchFails(self) ==
    /\ pc[self] = "extract"
    /\ passlog'[self] = Append(passlog[self], product(self))
    /\ fetched'[product(self)] \in Failures

\* C19: for every response that is a network failure, a timeout or an error
\* status, get_product_info returns (None, None); in the pass the product is
\* then skipped: nothing is stored, drawn or notified, last_checked_at is set
\* to the time of the check, and the pass goes on without an exception.
C19_FetchFailureSkips ==
    [][/\ \A r \in Pages : r.failure \in Failures
                              => get_product_info(r) = << None, None >>
       /\ \A self \in Procs :
            FetchFails(self) =>
               /\ scraped'[product(self)] = Append(scraped[product(self)], NULL)
               /\ products'[product(self)].last_checked_at = now
               /\ UNCHANGED << prices, notifyVars, charts >>
               /\ ProductCompletes(self)]_vars

\* the request for product 1 timed out, the product has its last-checked time
\* and no point, and the pass is through
C19_Witness ==
    /\ fetched[1] = "Timeout"
    /\ products[1].last_checked_at = now
    /\ scraped[1] # <<>> /\ scraped[1][Len(scraped[1])] = NULL
    /\ SelectRows(prices, 1) = <<>>
    /\ pc["monitor"] = "returned"
    /\ passlog["monitor"] = << 2, 1 >>

\* every row of the table is still there, in its place and with its values
RowsKept == /\ Len(prices') >= Len(prices)
            /\ \A i \in 1..Len(prices) : prices'[i] = prices[i]

StatsAnswered ==
    /\ pc["api"] = "stats"
    /\ pc'["api"] = "idle"
    /\ response'.status = 200

RECURSIVE SumOfPrices(_)
SumOfPrices(rows) ==
    IF rows = <<>> THEN 0 ELSE rows[1].price + SumOfPrices(Tail(rows))

\* C21: the statistics of a product without points are count 0 and null
\* minimum, maximum and average; otherwise the count is the number of its
\* points, the minimum and the maximum are its smallest and largest price, and
\* the average is the mean rounded to two decimals; the prices 10, 20, 15 give
\* 3, 10, 20 and 15.00.
C21_Stats ==
    [][StatsAnswered =>
         LET rows == SelectRows(prices, request.product_id_or_slug)
             n == Len(rows)
             stats == response'.stats
         IN  /\ n = 0 => stats = << 0, NULL, NULL, NULL >>
             /\ n > 0 =>
                   /\ stats[1] = n
                   /\ \A i \in 1..n : stats[2] <= rows[i].price /\ rows[i].price <= stats[3]
                   /\ \E i \in 1..n : stats[2] = rows[i].price
                   /\ \E i \in 1..n : stats[3] = rows[i].price
                   /\ 2 * stats[4] * n - 200 * SumOfPrices(rows) \in (0 - n)..n
             /\ (n = 3 /\ rows[1].price = 10 /\ rows[2].price = 20 /\ rows[3].price = 15)
                   => stats = << 3, 10, 20, 1500 >>]_vars

\* the statistics of the series 10, 20, 15 of product 1 have been answered
C21_Witness ==
    /\ request = [kind |-> "stats", product_id_or_slug |-> 1]
    /\ response.status = 200
    /\ response.stats = << 3, 10, 20, 1500 >>
    /\ Len(prices) = 3
    /\ prices[1].price = 10 /\ prices[2].price = 20 /\ prices[3].price = 15

\* the step answers a query about a product that has no price point
AnswersForEmptySeries(kind) ==
    /\ pc["api"] = kind
    /\ pc'["api"] = "idle"
    /\ SelectRows(prices, request.product_id_or_slug) = <<>>

\* C22: for a product without price points the full-series query answers an
\* empty list with statistics 0, null, null, null, and the latest-point query
\* and the chart-image query answer "not found"; none answers a server error.
C22_NoDataNoError ==
    [][/\ AnswersForEmptySeries("history")
            => /\ response'.status = 200
               /\ data' = <<>>
               /\ response'.stats = << 0, NULL, NULL, NULL >>
       /\ AnswersForEmptySeries("latest_price") => response'.status = 404
       /\ AnswersForEmptySeries("image") => response'.status = 404]_vars

\* no two rows of the products table have the same url or the same slug
UniqueProducts(prods) ==
    \A i, j \in DOMAIN prods :
        i # j => prods[i].url # prods[j].url /\ prods[i].slug # prods[j].slug

\* C23: whatever creates and updates are served, one after the other or
\* interleaved, no two products have the same URL or the same slug; a create
\* whose slug or URL another product has, and an update to a slug that another
\* product has, is answered with a failure and leaves the table as it is.
C23_UniqueUrlAndSlug ==
    [][/\ UniqueProducts(products')
       /\ (pc["api"] = "insert" /\ pc'["api"] = "idle"
             /\ (UrlTaken(products, data[1].url, 0)
                   \/ SlugTaken(products, data[1].slug, 0)))
            => products' = products /\ response'.status >= 400
       /\ (pc["api"] = "update" /\ pc'["api"] = "idle" /\ data[1].slug # None
             /\ SlugTaken(products, data[1].slug, request.product_id_or_slug))
            => products' = products /\ response'.status >= 400]_vars

\* the table has two products; a create that passed its checks lost to the
\* insert of another worker and failed, and the table has no duplicate
C23_Witness ==
    /\ Len(products) = 2
    /\ request.kind = "create"
    /\ response.status = 500
    /\ data # None
    /\ SlugTaken(products, data[1].slug, 0)

\* C24: the delete of the compaction removes only points that the compaction
\* has read: the points that a manual trigger has added to the series since
\* df_product_history was read are still in the table after the delete.
C24_RemovesOnlyRead ==
    [][(pc["monitor"] = "clean_delete" /\ pc'["monitor"] = "clean_insert") =>
          Len(SelectRows(prices', Head(cleanTodo)))
             >= Len(SelectRows(prices, Head(cleanTodo))) - Len(snapshot)]_vars

\* C25: a price drop is notified only when the new point is in the table:
\* at the call of send_telegram_message the latest point of the product has
\* the notified price and is newer than the point it was compared with.
C25_NotifiedDropIsStored ==
    [][\A self \in Procs :
         Notifies(self) =>
            LET message == notifications'[Len(notifications')]
                rows == SelectRows(prices, message.product)
            IN  /\ Len(rows) >= 2
                /\ rows[Len(rows)].price = message.current
                /\ rows[Len(rows) - 1].price = message.previous]_vars

\* the points of the series, in insertion order, that are lower than the
\* point before them
DropPoints(p) ==
    LET rows == SelectRows(prices, p)
    IN  {i \in 2..Len(rows) : rows[i].price < rows[i - 1].price}

\* C26: each notification of a product belongs to a point of its own whose
\* predecessor in insertion order has a strictly higher price, so a product
\* never has more notifications than its series has such points, however a
\* manual trigger and a scheduled pass interleave.
C26_OneNotificationPerDrop ==
    \A p \in ProductIds :
        /\ Len(NotificationsOf(p)) <= Cardinality(DropPoints(p))
        /\ \A k \in 1..Len(NotificationsOf(p)) :
              \E i \in DropPoints(p) :
                  SelectRows(prices, p)[i].price = NotificationsOf(p)[k].current

\* the filtered and normalized text of the first price element of the page
PriceTextOf(r) == replace_comma(cleaned_price(strip(r.price_element[1])))

\* get_product_info has returned for a page that answered and has a price
\* element
ParsedPriceElement ==
    /\ page # None
    /\ info # None
    /\ page.failure = "none"
    /\ page.price_element # <<>>

\* C27: when the text of the price element parses as a number the extractor
\* returns that number, whether the name selector matches or not; when it
\* does not parse, the extractor returns the name it found and no price.
C27_PriceIndependentOfName ==
    ParsedPriceElement =>
        IF float(PriceTextOf(page)) # ValueError
        THEN info[2] = float(PriceTextOf(page))
        ELSE /\ info[2] = None
             /\ info[1] = IF page.name_element = <<>> THEN None
                          ELSE strip(page.name_element[1])

\* the price of the answer of get_latest_price_entry
LatestPrice(p) ==
    LET latest == get_latest_price_entry(prices, p, TRUE)
    IN  IF latest = None THEN None ELSE << latest[2] >>

RECURSIVE LastPriceIn(_)
\* the last extraction that returned a price
LastPriceIn(s) ==
    IF s = <<>> THEN None
    ELSE IF s[Len(s)] \in {NULL, RAISED} THEN LastPriceIn(SubSeq(s, 1, Len(s) - 1))
    ELSE << s[Len(s)] >>

\* the compaction of the product at the head of cleanTodo has not yet deleted
BeforeCompaction ==
    pc["monitor"] \in {"clean_read", "clean_delete"} /\ cleanTodo # <<>>

\* the compaction of the product at the head of cleanTodo has deleted and
\* inserted again
AfterCompaction ==
    pc["monitor"] = "clean_next" /\ cleanTodo # <<>> /\ keep # <<>>

\* C28: the price that latest() returns for a product is the same after the
\* compaction of the product as before it (the last price that was saved),
\* whatever the order of the timestamps.
C28_LatestUnchangedByCompaction ==
    /\ BeforeCompaction =>
          LatestPrice(Head(cleanTodo)) = LastPriceIn(scraped[Head(cleanTodo)])
    /\ AfterCompaction =>
          LatestPrice(Head(cleanTodo)) = LastPriceIn(scraped[Head(cleanTodo)])

\* the products that have rows in the prices table
ProductsWithPoints == {prices[i].product_id : i \in 1..Len(prices)}

\* C29: every row of the prices table belongs to a product of the products
\* table, also while a deletion interleaves with a pass or a compaction.
C29_PointsReferenceProducts ==
    ProductsWithPoints \subseteq DOMAIN products

\* a / b rounded to the nearest integer, a tie to the even one
round_to_nearest(a, b) ==
    LET q == a \div b
        r == a % b
    IN  IF 2 * r < b THEN q
        ELSE IF 2 * r > b THEN q + 1
        ELSE IF q % 2 = 0 THEN q ELSE q + 1

\* the pass of the iteration has returned without an exception; a
\* ZeroDivisionError comes from the test of the period that follows the pass
PassHasReturned == exc["monitor"] \in {"none", "ZeroDivisionError"}

\* C30: for a positive check period the compaction runs in exactly the
\* iterations whose pass has returned and whose number is a multiple of
\* 86400 / period rounded to the nearest integer.
C30_CompactionPeriodRounded ==
    (delay > 0 /\ pc["monitor"] = "sleep" /\ PassHasReturned) =>
        LET n == round_to_nearest(SecondsPerDay, delay)
        IN  Count(cleanlog, iteration) = (IF iteration % n = 0 THEN 1 ELSE 0)

\* C31: for every positive check period, in every run of the loop in which
\* the passes return, the compaction test does not raise and the compaction
\* is eventually entered (within the iterations of the model: the whole
\* periods lie within MaxIter).
C31_CompactionRecurs ==
    /\ [](delay > 0 => exc["monitor"] # "ZeroDivisionError")
    /\ (delay > 0 /\ []PassHasReturned) => <>(cleanlog # <<>>)

\* a check pass or a compaction of the monitor loop is in progress
PassOrCompactionInProgress == pc["monitor"] \notin {"idle", "sleep"}

\* C32: the server takes up a query whatever the monitor loop is doing: while
\* a check pass or a compaction is in progress and the server has no request
\* in hand, a query that arrives can be accepted and answered.
C32_QueryServedDuringPass ==
    (PassOrCompactionInProgress /\ pc["api"] = "idle" /\ calls < MaxCalls)
        => ENABLED QueryCall

\* the step is one of the handler of a trigger request that names a product
TargetedTriggerStep ==
    /\ pc'["api"] # pc["api"] \/ passlog'["api"] # passlog["api"]
    /\ request.kind = "trigger"
    /\ target_product_id'["api"] # NoTarget

\* C33: a manual trigger that names an active product takes up that product
\* alone and once: the list of products its pass builds holds that product
\* and no other, its steps add at most one row, in the save of that product,
\* and change the last-checked time of that product only; the rows and the
\* records of every other product are as before.
C33_TargetedTriggerFrame ==
    [][TargetedTriggerStep =>
         LET p == target_product_id'["api"]
         IN  /\ todo'["api"] # todo["api"] => todo'["api"] \in {<<>>, << p >>}
             /\ passlog'["api"] \in {<<>>, << p >>}
             /\ \A q \in ProductIds \ {p} :
                   /\ SelectRows(prices', q) = SelectRows(prices, q)
                   /\ products'[q] = products[q]
             /\ products'[p].is_active = products[p].is_active
             /\ prices' # prices =>
                   /\ pc["api"] = "save" /\ pc'["api"] = "touch"
                   /\ prices' = Append(prices, prices'[Len(prices')])
                   /\ prices'[Len(prices')].product_id = p]_vars

\* a trigger that named product 1 has been answered: product 1 was taken up by
\* the handler, while product 2 has points that the scheduled passes saved
C33_Witness ==
    /\ TriggerAnswered
    /\ response.status = 200
    /\ target_product_id["api"] = 1
    /\ passlog["api"] = << 1 >>
    /\ products[1].last_checked_at # NULL
    /\ SelectRows(prices, 2) # <<>>

\* the point that the processing of the monitor has extracted, as a row
NewPoint ==
    [product_id |-> product("monitor"), timestamp |-> now,
     price |-> current_price["monitor"]]

\* C34: a processing with a price goes through its steps in the order read
\* latest, append, update last-checked, render, compare and notify: the
\* previous point is the one that was the latest before the append, never the
\* appended point, and the chart of a drop notification is the series with
\* the new point in it.
C34_StepOrder ==
    /\ [][LET p == product("monitor")
              at == pc["monitor"]
              to == pc'["monitor"]
          IN  /\ at = "latest" =>
                    /\ to = "save"
                    /\ prices' = prices
                    /\ previous'["monitor"] = get_latest_price_entry(prices, p, TRUE)
              /\ at = "save" =>
                    /\ to = "touch"
                    /\ prices' = Append(prices, NewPoint)
                    /\ UNCHANGED << products, charts, notifications, previous >>
              /\ at = "touch" =>
                    /\ to = "render"
                    /\ products'[p].last_checked_at = now
                    /\ UNCHANGED << prices, charts, notifications, previous >>
              /\ at = "render" =>
                    /\ to = "compare"
                    /\ charts'[p] = Series(p)
                    /\ UNCHANGED << prices, products, notifications, previous >>
              /\ Notifies("monitor") =>
                    /\ Last(notifications').image = Series(p)
                    /\ Last(Series(p)) = [date |-> now, price |-> NewPoint.price]
                    /\ UNCHANGED << prices, products, charts >>]_vars
    /\ [](pc["monitor"] \in {"touch", "render", "compare"} =>
            LET rows == SelectRows(prices, product("monitor"))
                n == Len(rows)
            IN  /\ n >= 1
                /\ rows[n] = NewPoint
                /\ previous["monitor"] =
                      IF n = 1 THEN None
                      ELSE << rows[n - 1].timestamp, rows[n - 1].price >>)

\* a drop has been notified with a chart of two points, the second one the
\* point of this processing
C34_Witness ==
    /\ notifications # <<>>
    /\ Len(Last(notifications).image) = 2
    /\ Last(notifications).image[2].price = Last(notifications).current
    /\ Last(notifications).image[1].price = Last(notifications).previous

\* C35: in every notification the previous price is above zero and the
\* discount lies above 0 and at most at 100 percent (10000 hundredths).
C35_DiscountInRange ==
    \A i \in 1..Len(notifications) :
        /\ notifications[i].previous > 0
        /\ notifications[i].discount > 0
        /\ notifications[i].discount <= 10000

\* the compaction of this iteration follows the compaction of the iteration
\* before, and the pass in between saved no point for product p
SecondCompactionInARow(p) ==
    /\ iteration >= 2
    /\ Count(cleanlog, iteration - 1) = 1
    /\ Count(cleanlog, iteration) = 1
    /\ p \in Range(passlog["monitor"]) => Last(scraped[p]) \in {NULL, RAISED}

\* C36: the compaction is idempotent.  For every table the program reaches, a
\* second compaction of a product leaves the series that the first one left;
\* the steps of clean_price_history carry out that function; and a compaction
\* that follows another one with no point saved in between leaves the series
\* as it read it.
C36_CompactionIdempotent ==
    /\ \A p \in ProductIds :
          LET once == clean_price_history_of(prices, p)
              twice == clean_price_history_of(once, p)
          IN  get_all_price_entries_df(twice, p, TRUE)
                = get_all_price_entries_df(once, p, TRUE)
    /\ pc["monitor"] = "clean_delete" =>
          clean_price_history_of(prices, Head(cleanTodo))
            = bulk_insert_prices_for_product(
                  delete_prices_for_product(prices, Head(cleanTodo), TRUE),
                  Head(cleanTodo), keep, TRUE)
    /\ (pc["monitor"] = "clean_next" /\ SecondCompactionInARow(Head(cleanTodo)))
          => Series(Head(cleanTodo)) = snapshot

\* a second compaction in a row has gone through its delete and insert for a
\* series of two points
C36_Witness ==
    /\ pc["monitor"] = "clean_next"
    /\ SecondCompactionInARow(Head(cleanTodo))
    /\ Len(keep) = 2
    /\ Series(Head(cleanTodo)) = snapshot

\* the prices that occur in week w of a frame
PricesOfWeek(df, w) == {df[i].price : i \in {j \in 1..Len(df) : week_num(df[j].date) = w}}

\* the weeks of a frame
WeeksOf(df) == {week_num(df[i].date) : i \in 1..Len(df)}

\* the frame as the rows of a table of product p
AsTable(df, p) ==
    [i \in 1..Len(df) |-> [product_id |-> p, timestamp |-> df[i].date,
                            price |-> df[i].price]]

\* C37: after the compaction of a product the statistics give the minimum and
\* the maximum price they gave for the series that was read, and every week
\* of that series has the same set of prices as before.
C37_CompactionKeepsPrices ==
    Compacted =>
        LET p == Head(cleanTodo)
            before == get_price_stats(AsTable(snapshot, p), p)
            after == get_price_stats(prices, p)
        IN  /\ after[2] = before[2]
            /\ after[3] = before[3]
            /\ \A w \in WeeksOf(snapshot) :
                  PricesOfWeek(Series(p), w) = PricesOfWeek(snapshot, w)

\* the positions of the monitor inside clean_price_history
CleanPositions == {"clean", "clean_read", "clean_delete", "clean_insert", "clean_next"}

\* the monitor takes a step of clean_price_history
CompactionStep ==
    /\ pc["monitor"] \in CleanPositions
    /\ pc'["monitor"] # pc["monitor"]

\* C38: a step of the compaction leaves every product record as it is, last
\* check included; while one product is compacted the rows of every other
\* product stay as they are, in their order; outside the delete and the insert
\* of that product no row changes; and a product whose series is empty is
\* passed over, with nothing deleted and nothing inserted.
C38_CompactionFrame ==
    [][CompactionStep =>
         /\ products' = products
         /\ pc["monitor"] \in {"clean_delete", "clean_insert"} =>
               RowsOfOthers(prices', Head(cleanTodo))
                   = RowsOfOthers(prices, Head(cleanTodo))
         /\ pc["monitor"] \notin {"clean_delete", "clean_insert"} => prices' = prices
         /\ (pc["monitor"] = "clean_read" /\ Series(Head(cleanTodo)) = <<>>) =>
               /\ pc'["monitor"] \in {"clean_next", "raised"}
               /\ Series(Head(cleanTodo))' = <<>>
    ]_vars

\* the series of one product has been deleted for its compaction while the
\* other product has points
C38_Witness ==
    /\ pc["monitor"] = "clean_insert"
    /\ keep # <<>>
    /\ Series(Head(cleanTodo)) = <<>>
    /\ \E q \in ProductIds \ {Head(cleanTodo)} : Series(q) # <<>>

====
